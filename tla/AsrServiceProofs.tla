-------------------------- MODULE AsrServiceProofs --------------------------
(***************************************************************************)
(* Theorems about AsrService for every set of streams, sessions and        *)
(* faults, and every size of frames, chunks, batches and queue.            *)
(***************************************************************************)
EXTENDS AsrService, SubsequencesProofs

USE KeyAssumption, BoundsAssumption

(* The sizes, one by one.                                                  *)
LEMMA Sizes ==
  /\ FrameUnits \in Nat /\ FrameUnits > 0 /\ ChunkUnits \in Nat /\ ChunkUnits > 0
  /\ MaxBatch \in Nat /\ MaxBatch > 0 /\ MaxQueue \in Nat /\ MaxQueue > 0
BY SizesAssumption

-----------------------------------------------------------------------------
(* Type correctness.                                                       *)

LEMMA CutType ==
  ASSUME TypeInv, NEW s \in Streams, Cut(s), UNCHANGED <<queue, batch, caches, phase>>,
         future' \in [Streams -> {"none", "pending", "cancelled", "result", "error"}]
  PROVE  TypeInv'
<1>1. /\ rpc' \in [Streams -> Active \cup {"none", "ended", "cut"}]
      /\ ending' \in [Streams -> BOOLEAN]
      /\ first' \in [Streams -> Int] /\ next' \in [Streams -> Int]
      /\ pending' \in [Streams -> SUBSET Nat]
      /\ buffer' \in [Streams -> Seq(Nat)] /\ heard' \in [Streams -> Seq(Nat)]
      /\ todo' \in [Streams -> Seq(Chunks)]
  BY DEF TypeInv, TypeOK, Cut, Goto
<1>2. ASSUME NEW r \in Streams
      PROVE  /\ first'[r] \in -1..MaxSequence[r] /\ next'[r] \in -1..MaxSequence[r] + 1
             /\ pending'[r] \subseteq next'[r] + 1..MaxSequence[r]
             /\ Len(buffer'[r]) < ChunkUnits
             /\ next'[r] = -1 =>
                  first'[r] = -1 /\ pending'[r] = {} /\ buffer'[r] = <<>>
             /\ next'[r] # -1 => first'[r] \in 0..next'[r]
  <2>1. CASE r = s
    <3>1. /\ first'[r] = -1 /\ next'[r] = -1 /\ pending'[r] = {} /\ buffer'[r] = <<>>
      BY <2>1 DEF TypeInv, TypeOK, Cut
    <3>. QED BY <3>1, Sizes
  <2>2. CASE r # s
    <3>1. /\ first'[r] = first[r] /\ next'[r] = next[r] /\ pending'[r] = pending[r]
          /\ buffer'[r] = buffer[r]
      BY <2>2 DEF TypeInv, TypeOK, Cut
    <3>. QED BY <3>1 DEF TypeInv, TypeOK
  <2>. QED BY <2>1, <2>2
<1>. QED BY <1>1, <1>2 DEF TypeInv, TypeOK

(* Division, for the provers.                                              *)
LEMMA Division ==
  ASSUME NEW x \in Nat, NEW c \in Nat, c > 0
  PROVE  /\ x \div c \in Nat /\ (x \div c) * c \in Nat
         /\ (x \div c) * c <= x /\ x < (x \div c) * c + c
OBVIOUS

LEMMA AudioType ==
  ASSUME NEW a \in Nat, NEW n \in Nat
  PROVE  /\ n * FrameUnits \in Nat
         /\ Audio(a, n) \in Seq(Nat) /\ Len(Audio(a, n)) = n * FrameUnits
         /\ \A i \in 1..n * FrameUnits : Audio(a, n)[i] = a + (i - 1) \div FrameUnits
<1>1. n * FrameUnits \in Nat BY Sizes
<1>2. ASSUME NEW i \in 1..n * FrameUnits PROVE a + (i - 1) \div FrameUnits \in Nat
  <2>1. i - 1 \in Nat BY <1>1
  <2>2. (i - 1) \div FrameUnits \in Nat BY <2>1, Sizes, Division
  <2>. QED BY <2>2
<1>. QED BY <1>1, <1>2 DEF Audio

(* What push does: m frames come in turn, and make n chunks.               *)
Pushed(s, a, m, n, audio) ==
  /\ audio = buffer[s] \o Audio(a, m) /\ Len(audio) = Len(buffer[s]) + m * FrameUnits
  /\ next' = [next EXCEPT ![s] = a + m]
  /\ buffer' = [buffer EXCEPT ![s] = SubSeq(audio, n * ChunkUnits + 1, Len(audio))]
  /\ todo' = [todo EXCEPT ![s] = [i \in 1..n |->
          [audio |-> SubSeq(audio, (i - 1) * ChunkUnits + 1, i * ChunkUnits),
           final |-> FALSE]]]
  /\ n * ChunkUnits \in Nat /\ n * ChunkUnits <= Len(audio)
  /\ Len(audio) < n * ChunkUnits + ChunkUnits

LEMMA PushMeans ==
  ASSUME TypeInv, NEW s \in Streams, NEW q \in 0..MaxSequence[s], Push(s, q)
  PROVE  \E a, m, n \in Nat : \E audio \in Seq(Nat) :
            /\ Pushed(s, a, m, n, audio)
            /\ a = IF next[s] = -1 THEN q ELSE next[s]
            /\ a + m <= MaxSequence[s] + 1
            /\ pending'[s] \subseteq a + m + 1..MaxSequence[s]
<1> DEFINE a == IF next[s] = -1 THEN q ELSE next[s]
           known == q < a \/ q \in pending[s]
           frames == IF known THEN pending[s] ELSE pending[s] \cup {q}
           turn == {i \in frames : a..i \subseteq frames}
           m == Cardinality(turn)
           audio == buffer[s] \o Audio(a, m)
           n == Len(audio) \div ChunkUnits
           max == MaxSequence[s]
<1>1. /\ max \in Nat /\ q \in 0..max
      /\ next[s] \in -1..max + 1 /\ pending[s] \subseteq next[s] + 1..max
      /\ next[s] = -1 => pending[s] = {}
      /\ buffer[s] \in Seq(Nat)
  BY DEF TypeInv, TypeOK
<1> HIDE DEF max
<1>2. a \in Nat /\ a <= max + 1 /\ frames \subseteq a..max BY <1>1
<1> HIDE DEF a, frames
<1>3. /\ m \in Nat /\ turn = a..(a + m - 1)
  <2>1. turn \in SUBSET (a..max) BY <1>2
  <2>2. ASSUME NEW i \in turn PROVE a..i \subseteq turn
    <3>1. i \in a..max /\ a..i \subseteq frames BY <1>2
    <3>2. ASSUME NEW j \in a..i PROVE j \in turn
      <4>1. a..j \subseteq a..i BY <1>1, <1>2, <3>1
      <4>. QED BY <3>1, <4>1
    <3>. QED BY <3>2
  <2>3. a \in Int /\ max \in Int BY <1>1, <1>2
  <2> HIDE DEF turn
  <2>. QED BY <2>1, <2>2, <2>3, InitialSegment
<1> HIDE DEF m
<1>4. frames \ turn \subseteq a + m + 1..max
  <2>1. ASSUME NEW i \in frames \ turn PROVE i \in a + m + 1..max
    <3>1. i \in a..max /\ i \notin a..(a + m - 1) BY <1>2, <1>3
    <3>2. i >= a + m BY <1>1, <1>2, <1>3, <3>1
    <3>3. i # a + m
      <4>1. ASSUME i = a + m PROVE FALSE
        <5>1. ASSUME NEW j \in a..i PROVE j \in frames
          <6>1. j = i \/ j \in a..(a + m - 1) BY <1>2, <1>3, <4>1
          <6>. QED BY <1>3, <6>1
        <5>2. i \in turn BY <5>1
        <5>. QED BY <5>2
      <4>. QED BY <4>1
    <3>. QED BY <1>1, <1>2, <1>3, <3>1, <3>2, <3>3
  <2>. QED BY <2>1
<1>5. a + m <= max + 1
  <2>1. CASE m = 0 BY <1>1, <1>2, <2>1
  <2>2. CASE m # 0
    <3>1. a + m - 1 \in a..(a + m - 1) BY <1>2, <1>3, <2>2
    <3>2. a + m - 1 \in frames BY <1>3, <3>1
    <3>. QED BY <1>1, <1>2, <1>3, <3>2
  <2>. QED BY <2>1, <2>2
<1> HIDE DEF turn
<1>6. /\ audio \in Seq(Nat) /\ Len(audio) = Len(buffer[s]) + m * FrameUnits
      /\ Len(audio) \in Nat
  <2> DEFINE x == Audio(a, m)
             y == buffer[s]
  <2>1. x \in Seq(Nat) /\ Len(x) = m * FrameUnits BY <1>2, <1>3, AudioType
  <2>2. y \in Seq(Nat) BY <1>1
  <2> HIDE DEF x, y
  <2>3. y \o x \in Seq(Nat) /\ Len(y \o x) = Len(y) + Len(x) BY <2>1, <2>2, ConcatProperties, Zenon
  <2>4. Len(y \o x) \in Nat BY <2>3
  <2>. QED BY <2>1, <2>3, <2>4 DEF x, y
<1> HIDE DEF audio
<1>7. /\ n \in Nat /\ n * ChunkUnits \in Nat /\ n * ChunkUnits <= Len(audio)
      /\ Len(audio) < n * ChunkUnits + ChunkUnits
  BY <1>6, Sizes, Division
<1> HIDE DEF n
<1>8. /\ next' = [next EXCEPT ![s] = a + m]
      /\ pending' = [pending EXCEPT ![s] = frames \ turn]
      /\ buffer' = [buffer EXCEPT ![s] = SubSeq(audio, n * ChunkUnits + 1, Len(audio))]
      /\ todo' = [todo EXCEPT ![s] = [i \in 1..n |->
              [audio |-> SubSeq(audio, (i - 1) * ChunkUnits + 1, i * ChunkUnits),
               final |-> FALSE]]]
  BY DEF Push, a, frames, turn, m, audio, n
<1>9. pending'[s] = frames \ turn BY <1>8 DEF TypeInv
<1>10. Pushed(s, a, m, n, audio) BY <1>6, <1>7, <1>8 DEF Pushed, audio
<1>11. a = IF next[s] = -1 THEN q ELSE next[s] BY DEF a
<1>. QED BY <1>2, <1>3, <1>4, <1>5, <1>6, <1>7, <1>9, <1>10, <1>11 DEF max

LEMMA FrameType ==
  ASSUME TypeInv, NEW s \in Streams, NEW q \in 0..MaxSequence[s], Frame(s, q)
  PROVE  TypeInv'
<1>1. Push(s, q) BY DEF Frame
<1>2. PICK a \in Nat, m \in Nat, n \in Nat, audio \in Seq(Nat) :
        /\ Pushed(s, a, m, n, audio)
        /\ a = IF next[s] = -1 THEN q ELSE next[s]
        /\ a + m <= MaxSequence[s] + 1
        /\ pending'[s] \subseteq a + m + 1..MaxSequence[s]
  BY <1>1, PushMeans
<1>10. /\ n * ChunkUnits \in Nat /\ n * ChunkUnits <= Len(audio)
       /\ Len(audio) < n * ChunkUnits + ChunkUnits
  BY <1>2, Zenon DEF Pushed
<1>11. Len(audio) \in Nat BY LenProperties
<1>3. SubSeq(audio, n * ChunkUnits + 1, Len(audio)) \in Seq(Nat)
      /\ Len(SubSeq(audio, n * ChunkUnits + 1, Len(audio))) < ChunkUnits
  <2> DEFINE k == n * ChunkUnits
  <2>1. k \in Nat /\ k <= Len(audio) /\ Len(audio) < k + ChunkUnits /\ Len(audio) \in Nat
    BY <1>10, <1>11
  <2> HIDE DEF k
  <2>2. SubSeq(audio, k + 1, Len(audio)) \in Seq(Nat)
        /\ Len(SubSeq(audio, k + 1, Len(audio))) = Len(audio) - k
    BY <2>1, SubSeqProperties
  <2>3. Len(SubSeq(audio, k + 1, Len(audio))) < ChunkUnits BY <2>1, <2>2, Sizes
  <2>. QED BY <2>2, <2>3, Zenon DEF k
<1>4. [i \in 1..n |->
         [audio |-> SubSeq(audio, (i - 1) * ChunkUnits + 1, i * ChunkUnits),
          final |-> FALSE]] \in Seq(Chunks)
  <2>1. ASSUME NEW i \in 1..n
        PROVE  SubSeq(audio, (i - 1) * ChunkUnits + 1, i * ChunkUnits) \in Seq(Nat)
    <3> DEFINE k == (i - 1) * ChunkUnits
               l == i * ChunkUnits
    <3>1. k \in Nat /\ l \in Nat /\ l <= Len(audio)
      <4>1. /\ i * ChunkUnits <= n * ChunkUnits
            /\ i * ChunkUnits \in Nat /\ (i - 1) * ChunkUnits \in Nat
        BY Sizes
      <4>. QED BY <1>10, <1>11, <4>1
    <3> HIDE DEF k, l
    <3>2. SubSeq(audio, k + 1, l) \in Seq(Nat) BY <3>1, SubSeqProperties
    <3>. QED BY <3>2 DEF k, l
  <2>. QED BY <2>1 DEF Chunks
<1>5. /\ rpc' \in [Streams -> Active \cup {"none", "ended", "cut"}]
      /\ first' \in [Streams -> Int] /\ next' \in [Streams -> Int]
      /\ buffer' \in [Streams -> Seq(Nat)] /\ todo' \in [Streams -> Seq(Chunks)]
  <2>1. rpc' \in [Streams -> Active \cup {"none", "ended", "cut"}]
        /\ first' \in [Streams -> Int]
    <3>1. rpc' \in [Streams -> Active \cup {"none", "ended", "cut"}]
      BY DEF TypeInv, TypeOK, Frame, Goto, Active
    <3>2. first' \in [Streams -> Int]
      <4>1. first \in [Streams -> Int] BY DEF TypeInv, TypeOK
      <4>2. first' = [first EXCEPT ![s] = IF @ = -1 THEN q ELSE @] BY <1>1 DEF Push
      <4>3. q \in Int OBVIOUS
      <4>. QED BY <4>1, <4>2, <4>3
    <3>. QED BY <3>1, <3>2
  <2>2. /\ next' = [next EXCEPT ![s] = a + m]
        /\ buffer' = [buffer EXCEPT ![s] = SubSeq(audio, n * ChunkUnits + 1, Len(audio))]
        /\ todo' = [todo EXCEPT ![s] = [i \in 1..n |->
              [audio |-> SubSeq(audio, (i - 1) * ChunkUnits + 1, i * ChunkUnits),
               final |-> FALSE]]]
    BY <1>2, Zenon DEF Pushed
  <2>3. next' \in [Streams -> Int] BY <2>2 DEF TypeInv
  <2>4. buffer' \in [Streams -> Seq(Nat)] BY <1>3, <2>2, Zenon DEF TypeInv
  <2>5. todo' \in [Streams -> Seq(Chunks)] BY <1>4, <2>2, Zenon DEF TypeInv
  <2>. QED BY <2>1, <2>3, <2>4, <2>5
<1>6. pending' \in [Streams -> SUBSET Nat]
  <2>1. pending'[s] \in SUBSET Nat BY <1>2
  <2>2. \E x : pending' = [pending EXCEPT ![s] = x] BY DEF Frame, Push
  <2>. QED BY <2>1, <2>2 DEF TypeInv
<1>7. ASSUME NEW r \in Streams
      PROVE  /\ first'[r] \in -1..MaxSequence[r] /\ next'[r] \in -1..MaxSequence[r] + 1
             /\ pending'[r] \subseteq next'[r] + 1..MaxSequence[r]
             /\ Len(buffer'[r]) < ChunkUnits
             /\ next'[r] = -1 =>
                  first'[r] = -1 /\ pending'[r] = {} /\ buffer'[r] = <<>>
             /\ next'[r] # -1 => first'[r] \in 0..next'[r]
  <2>1. CASE r = s
    <3>1. /\ first'[r] \in -1..MaxSequence[r]
          /\ first'[r] \in 0..a
      <4>1. first'[r] = IF first[r] = -1 THEN q ELSE first[r]
        BY <2>1 DEF TypeInv, Frame, Push
      <4>2. /\ MaxSequence[r] \in Nat /\ first[r] \in -1..MaxSequence[r]
            /\ next[r] = -1 => first[r] = -1
            /\ next[r] # -1 => first[r] \in 0..next[r]
            /\ q \in 0..MaxSequence[r] /\ a = IF next[r] = -1 THEN q ELSE next[r]
        BY <1>2, <2>1 DEF TypeInv, TypeOK
      <4>. QED BY <4>1, <4>2
    <3>2. next'[r] = a + m /\ next'[r] # -1
      <4>1. next' = [next EXCEPT ![s] = a + m] BY <1>2, Zenon DEF Pushed
      <4>. QED BY <2>1, <4>1 DEF TypeInv
    <3>3. Len(buffer'[r]) < ChunkUnits BY <1>2, <1>3, <2>1 DEF TypeInv, Pushed
    <3>. QED BY <1>2, <2>1, <3>1, <3>2, <3>3, SMTT(30)
  <2>2. CASE r # s
    <3>1. /\ first'[r] = first[r] /\ next'[r] = next[r] /\ pending'[r] = pending[r]
          /\ buffer'[r] = buffer[r]
      BY <2>2 DEF TypeInv, TypeOK, Frame, Push
    <3>. QED BY <3>1 DEF TypeInv, TypeOK
  <2>. QED BY <2>1, <2>2
<1>8. UNCHANGED <<ending, queue, batch, future, caches, heard, phase>>
  BY DEF Frame, scheduler, engine
<1>. QED BY <1>5, <1>6, <1>7, <1>8 DEF TypeInv, TypeOK

(* c is audio without its first k units, as far as c goes.                 *)
IsPart(c, audio, k) == \A j \in 1..Len(c) : c[j] = audio[k + j]

(* The chunks a push makes, and what it leaves.                            *)
LEMMA PushedChunks ==
  ASSUME TypeInv, NEW s \in Streams, NEW a \in Nat, NEW m \in Nat, NEW n \in Nat,
         NEW audio \in Seq(Nat), Pushed(s, a, m, n, audio), NEW i \in DOMAIN todo'[s]
  PROVE  /\ i \in 1..n /\ (i - 1) * ChunkUnits \in Nat
         /\ (i - 1) * ChunkUnits + ChunkUnits <= Len(audio)
         /\ todo'[s][i].final = FALSE /\ Len(todo'[s][i].audio) = ChunkUnits
         /\ IsPart(todo'[s][i].audio, audio, (i - 1) * ChunkUnits)
<1> DEFINE k == (i - 1) * ChunkUnits
           l == i * ChunkUnits
           c == SubSeq(audio, k + 1, l)
<1>0. /\ todo'[s] = [x \in 1..n |->
            [audio |-> SubSeq(audio, (x - 1) * ChunkUnits + 1, x * ChunkUnits),
             final |-> FALSE]]
      /\ n * ChunkUnits \in Nat /\ n * ChunkUnits <= Len(audio) /\ Len(audio) \in Nat
  <2>1. /\ todo' = [todo EXCEPT ![s] = [x \in 1..n |->
              [audio |-> SubSeq(audio, (x - 1) * ChunkUnits + 1, x * ChunkUnits),
               final |-> FALSE]]]
        /\ next' = [next EXCEPT ![s] = a + m]
        /\ buffer' = [buffer EXCEPT ![s] = SubSeq(audio, n * ChunkUnits + 1, Len(audio))]
        /\ n * ChunkUnits \in Nat /\ n * ChunkUnits <= Len(audio)
    BY Zenon DEF Pushed
  <2>2. Len(audio) \in Nat BY LenProperties
  <2>. QED BY <2>1, <2>2, Zenon DEF TypeInv
<1>1. i \in 1..n /\ todo'[s][i] = [audio |-> c, final |-> FALSE] BY <1>0
<1>2. k \in Nat /\ l \in Nat /\ l = k + ChunkUnits /\ l <= n * ChunkUnits
  <2>1. ASSUME NEW x \in 1..n
        PROVE  /\ (x - 1) * ChunkUnits \in Nat /\ x * ChunkUnits \in Nat
               /\ x * ChunkUnits = (x - 1) * ChunkUnits + ChunkUnits
               /\ x * ChunkUnits <= n * ChunkUnits
    BY Sizes
  <2>. QED BY <1>1, <2>1
<1> HIDE DEF k, l
<1>3. l <= Len(audio) BY <1>0, <1>2, Sizes
<1>4. Len(c) = l - k /\ \A j \in 1..l - k : c[j] = audio[k + j]
  <2>1. /\ Len(c) = l - (k + 1) + 1
        /\ \A j \in 1..l - (k + 1) + 1 : c[j] = audio[(k + 1) + j - 1]
    BY <1>0, <1>2, <1>3, Sizes, SubSeqProperties
  <2>2. l - (k + 1) + 1 = l - k BY <1>2
  <2>3. \A j \in 1..l - k : (k + 1) + j - 1 = k + j BY <1>2
  <2> HIDE DEF c
  <2>. QED BY <2>1, <2>2, <2>3
<1> HIDE DEF c
<1>5. l - k = ChunkUnits /\ k + ChunkUnits <= Len(audio) BY <1>2, <1>3, Sizes
<1>6. /\ todo'[s][i].final = FALSE /\ Len(todo'[s][i].audio) = ChunkUnits
      /\ IsPart(todo'[s][i].audio, audio, k)
  BY <1>1, <1>4, <1>5 DEF IsPart
<1>. QED BY <1>1, <1>2, <1>5, <1>6, Zenon DEF k

LEMMA PushedBuffer ==
  ASSUME TypeInv, NEW s \in Streams, NEW a \in Nat, NEW m \in Nat, NEW n \in Nat,
         NEW audio \in Seq(Nat), Pushed(s, a, m, n, audio)
  PROVE  /\ Len(todo'[s]) = n /\ next'[s] = a + m
         /\ Len(buffer'[s]) = Len(audio) - n * ChunkUnits
         /\ \A j \in 1..Len(buffer'[s]) : buffer'[s][j] = audio[n * ChunkUnits + j]
<1> DEFINE k == n * ChunkUnits
           l == Len(audio)
           c == SubSeq(audio, k + 1, l)
<1>0. /\ todo'[s] = [x \in 1..n |->
            [audio |-> SubSeq(audio, (x - 1) * ChunkUnits + 1, x * ChunkUnits),
             final |-> FALSE]]
      /\ next'[s] = a + m /\ buffer'[s] = SubSeq(audio, n * ChunkUnits + 1, Len(audio))
      /\ n * ChunkUnits \in Nat /\ n * ChunkUnits <= Len(audio) /\ Len(audio) \in Nat
  <2>1. /\ todo' = [todo EXCEPT ![s] = [x \in 1..n |->
              [audio |-> SubSeq(audio, (x - 1) * ChunkUnits + 1, x * ChunkUnits),
               final |-> FALSE]]]
        /\ next' = [next EXCEPT ![s] = a + m]
        /\ buffer' = [buffer EXCEPT ![s] = SubSeq(audio, n * ChunkUnits + 1, Len(audio))]
        /\ n * ChunkUnits \in Nat /\ n * ChunkUnits <= Len(audio)
    BY Zenon DEF Pushed
  <2>2. Len(audio) \in Nat BY LenProperties
  <2>. QED BY <2>1, <2>2, Zenon DEF TypeInv
<1>1. k \in Nat /\ l \in Nat /\ k <= l /\ buffer'[s] = c BY <1>0, Zenon
<1> HIDE DEF k
<1>2. /\ Len(c) = l - (k + 1) + 1
      /\ \A j \in 1..l - (k + 1) + 1 : c[j] = audio[(k + 1) + j - 1]
  <2>1. \A x \in k + 1..l : x \in 1..Len(audio) BY <1>1
  <2>2. k + 1 \in Int /\ l \in Int /\ \A x \in k + 1..l : audio[x] \in Nat
    <3>1. \A x \in 1..Len(audio) : audio[x] \in Nat OBVIOUS
    <3> HIDE DEF l
    <3>2. k + 1 \in Int /\ l \in Int BY <1>1
    <3>. QED BY <2>1, <3>1, <3>2
  <2> HIDE DEF l
  <2>3. /\ Len(SubSeq(audio, k + 1, l)) = IF k + 1 <= l THEN l - (k + 1) + 1 ELSE 0
        /\ \A j \in 1..l - (k + 1) + 1 : SubSeq(audio, k + 1, l)[j] = audio[(k + 1) + j - 1]
    BY <2>2, SubSeqProperties
  <2> HIDE DEF c
  <2>4. (IF k + 1 <= l THEN l - (k + 1) + 1 ELSE 0) = l - (k + 1) + 1 BY <1>1 DEF l
  <2>. QED BY <2>3, <2>4 DEF c
<1> HIDE DEF l, c
<1>3. l - (k + 1) + 1 = l - k /\ \A j \in 1..l - k : (k + 1) + j - 1 = k + j BY <1>1
<1>4. Len(c) = l - k /\ \A j \in 1..l - k : c[j] = audio[k + j] BY <1>2, <1>3
<1>5. Len(todo'[s]) = n /\ next'[s] = a + m BY <1>0
<1>. QED BY <1>1, <1>4, <1>5 DEF k, l

(* What tick does: the queue is parted, without changing any order.        *)
Rest == DOMAIN queue \ (Taken \cup Dropped)

LEMMA TickMeans ==
  ASSUME TypeInv, Tick
  PROVE  /\ DOMAIN queue = 1..Len(queue)
         /\ Taken \in SUBSET (1..Len(queue)) /\ Rest \in SUBSET (1..Len(queue))
         /\ batch' = Chosen(queue, Taken) /\ batch' \in Seq(QueueItems)
         /\ queue' = Chosen(queue, Rest) /\ queue' \in Seq(QueueItems)
         /\ Len(batch') = Cardinality(Taken) /\ Cardinality(Taken) \in Nat
         /\ Cardinality(Taken) <= MaxBatch
         /\ Len(queue') \in Nat /\ Len(queue') <= Len(queue)
<1>1. queue \in Seq(QueueItems) /\ DOMAIN queue = 1..Len(queue) /\ Len(queue) \in Nat
  BY DEF TypeInv
<1>2. /\ Taken \in SUBSET (1..Len(queue)) /\ Rest \in SUBSET (1..Len(queue))
      /\ Firsts \in SUBSET (1..Len(queue)) /\ Taken \subseteq Firsts
  BY <1>1 DEF Taken, Firsts, Rest
<1>3. /\ batch' = Chosen(queue, Taken) /\ queue' = Chosen(queue, Rest)
  BY DEF Tick, Only, Rest
<1>4. /\ batch' \in Seq(QueueItems) /\ queue' \in Seq(QueueItems)
      /\ Len(batch') = Cardinality(Taken) /\ Cardinality(Taken) \in Nat
      /\ Len(queue') = Cardinality(Rest) /\ Cardinality(Rest) \in Nat
  BY <1>1, <1>2, <1>3, ChosenProperties
<1>5. IsFiniteSet(1..Len(queue)) /\ Cardinality(1..Len(queue)) = Len(queue)
  BY <1>1, FS_Interval, SMTT(30)
<1>6. Len(queue') <= Len(queue)
  <2>1. Cardinality(Rest) <= Cardinality(1..Len(queue)) BY <1>2, <1>5, FS_Subset
  <2>. QED BY <1>4, <1>5, <2>1
<1>7. Cardinality(Taken) <= MaxBatch
  <2> DEFINE rank == [i \in Taken |-> Cardinality(Below(Firsts, i))]
             B == 0..(MaxBatch - 1)
  <2>1. IsFiniteSet(Firsts) /\ Firsts \in SUBSET Int
    <3>1. IsFiniteSet(Firsts) BY <1>2, <1>5, FS_Subset
    <3>2. \A i \in Firsts : i \in 1..Len(queue) BY <1>2
    <3>. QED BY <3>1, <3>2
  <2>2. ASSUME NEW i \in Taken
        PROVE  /\ rank[i] \in B
               /\ \A j \in Taken : i < j => rank[i] < rank[j]
    <3>1. \A j \in Firsts : Cardinality(Below(Firsts, j)) \in Nat
                         /\ \A k \in Firsts : j < k =>
                               Cardinality(Below(Firsts, j)) < Cardinality(Below(Firsts, k))
      <4>1. ASSUME NEW j \in Firsts
            PROVE  /\ Cardinality(Below(Firsts, j)) \in 0..(Cardinality(Firsts) - 1)
                   /\ \A k \in Firsts : j < k =>
                         Cardinality(Below(Firsts, j)) < Cardinality(Below(Firsts, k))
        BY <2>1, BelowGrows
      <4>. QED BY <4>1
    <3>2. Cardinality(Below(Firsts, i)) < MaxBatch BY DEF Taken, Below
    <3>. QED BY <1>2, <3>1, <3>2, Sizes
  <2>3. rank \in Injection(Taken, B)
    <3>1. rank \in [Taken -> B] BY <2>2
    <3>2. ASSUME NEW i \in Taken, NEW j \in Taken, rank[i] = rank[j] PROVE i = j
      <4>1. rank[i] \in Int /\ ~ rank[i] < rank[j] /\ ~ rank[j] < rank[i] BY <2>2, <3>2
      <4>2. ~ i < j /\ ~ j < i BY <2>2, <4>1
      <4>3. i \in Int /\ j \in Int BY <1>2, <2>1
      <4>. QED BY <4>2, <4>3
    <3> HIDE DEF rank
    <3>. QED BY <3>1, <3>2 DEF Injection, IsInjective
  <2>4. IsFiniteSet(B) /\ Cardinality(B) = MaxBatch BY Sizes, FS_Interval
  <2> HIDE DEF rank, B
  <2>. QED BY <2>3, <2>4, FS_Injection
<1>. QED BY <1>1, <1>2, <1>3, <1>4, <1>6, <1>7

(* What the scheduler does to types.                                       *)
LEMMA SchedulerType ==
  ASSUME TypeInv, Tick \/ Recognize \/ EngineRaises \/ CloseScheduler
  PROVE  TypeInv'
<1>0. UNCHANGED <<rpc, first, next, pending, buffer, todo, ending>>
  BY DEF Tick, Recognize, EngineRaises, CloseScheduler, assembler
<1>1. CASE Tick
  <2>1. UNCHANGED <<future, caches, heard, phase>> BY <1>1 DEF Tick, engine
  <2>2. Len(queue') <= MaxQueue /\ Len(batch') <= MaxBatch
    <3>1. Len(queue') <= Len(queue) /\ Len(queue') \in Nat BY <1>1, TickMeans
    <3>2. Len(queue) <= MaxQueue /\ Len(queue) \in Nat BY DEF TypeInv, TypeOK
    <3>3. Len(batch') <= MaxBatch BY <1>1, TickMeans
    <3>. QED BY <3>1, <3>2, <3>3, Sizes
  <2>3. queue' \in Seq(QueueItems) /\ batch' \in Seq(QueueItems) BY <1>1, TickMeans
  <2>. QED BY <1>0, <2>1, <2>2, <2>3 DEF TypeInv, TypeOK
<1>2. ASSUME NEW n \in 0..Len(batch)
      PROVE  CachesAfter(n) \subseteq Keys /\ HeardAfter(n) \in [Streams -> Seq(Nat)]
  <2>1. ASSUME NEW x \in Items(n) PROVE x \in QueueItems
    BY DEF Items, TypeInv
  <2>2. CachesAfter(n) \subseteq Keys
    BY <2>1 DEF CachesAfter, KeyOf, QueueItems, TypeInv, TypeOK
  <2>3. ASSUME NEW s \in Streams, \E x \in Items(n) : x.stream = s
        PROVE  heard[s] \o (CHOOSE x \in Items(n) : x.stream = s).audio \in Seq(Nat)
    <3> DEFINE y == CHOOSE x \in Items(n) : x.stream = s
    <3>1. y \in Items(n) BY <2>3
    <3> HIDE DEF y
    <3>2. y.audio \in Seq(Nat) /\ heard[s] \in Seq(Nat) BY <2>1, <3>1 DEF QueueItems, TypeInv
    <3>3. heard[s] \o y.audio \in Seq(Nat) BY <3>2, ConcatProperties, Zenon
    <3>. QED BY <3>3 DEF y
  <2>4. ASSUME NEW s \in Streams PROVE heard[s] \in Seq(Nat) BY DEF TypeInv
  <2>. QED BY <2>2, <2>3, <2>4, Zenon DEF HeardAfter
<1>3. CASE Recognize \/ EngineRaises
  <2>1. caches' \subseteq Keys /\ heard' \in [Streams -> Seq(Nat)]
    <3>1. CASE Recognize
      <4>1. Len(batch) \in 0..Len(batch) BY DEF TypeInv
      <4>. QED BY <1>2, <3>1, <4>1 DEF Recognize
    <3>2. CASE EngineRaises
      <4>1. PICK n \in DOMAIN batch : \E opened \in SUBSET {KeyOf(batch[n])} :
              caches' = CachesAfter(n - 1) \cup opened /\ heard' = HeardAfter(n - 1)
        BY <3>2 DEF EngineRaises
      <4>2. n \in 1..Len(batch) /\ n - 1 \in 0..Len(batch) BY DEF TypeInv
      <4>3. KeyOf(batch[n]) \in Keys
        <5>1. batch[n] \in QueueItems BY <4>2 DEF TypeInv
        <5>2. batch[n].stream \in Streams BY <5>1 DEF QueueItems
        <5>. QED BY <5>2 DEF KeyOf
      <4>. QED BY <1>2, <4>1, <4>2, <4>3
    <3>. QED BY <1>3, <3>1, <3>2
  <2>2. future' \in [Streams -> {"none", "pending", "cancelled", "result", "error"}]
    BY <1>3 DEF TypeInv, TypeOK, Recognize, EngineRaises, Settle
  <2>3. /\ batch' = <<>> /\ UNCHANGED <<queue, phase>>
        /\ batch' \in Seq(QueueItems) /\ Len(batch') <= MaxBatch
    <3>1. batch' = <<>> /\ UNCHANGED <<queue, phase>> BY <1>3 DEF Recognize, EngineRaises
    <3>. QED BY <3>1, Sizes
  <2>. QED BY <1>0, <2>1, <2>2, <2>3 DEF TypeInv, TypeOK
<1>4. CASE CloseScheduler
  <2>1. future' \in [Streams -> {"none", "pending", "cancelled", "result", "error"}]
    BY <1>4 DEF TypeInv, TypeOK, CloseScheduler
  <2>2. /\ queue' = <<>> /\ batch' = <<>> /\ phase' = "stopped" /\ UNCHANGED <<caches, heard>>
        /\ batch' \in Seq(QueueItems) /\ Len(batch') <= MaxBatch
        /\ queue' \in Seq(QueueItems) /\ Len(queue') <= MaxQueue
    BY <1>4, Sizes DEF CloseScheduler, engine
  <2>. QED BY <1>0, <2>1, <2>2 DEF TypeInv, TypeOK
<1>. QED BY <1>1, <1>3, <1>4

LEMMA EnqueueType ==
  ASSUME TypeInv, NEW s \in Streams, Submit(s)
  PROVE  /\ TypeInv'
         /\ Head(todo[s]) = todo[s][1] /\ todo[s][1] \in Chunks
         /\ todo'[s] \in Seq(Chunks) /\ Len(todo'[s]) = Len(todo[s]) - 1
         /\ \A i \in 1..Len(todo[s]) - 1 : todo'[s][i] = todo[s][i + 1]
<1> DEFINE x == [stream |-> s, audio |-> Head(todo[s]).audio, final |-> Head(todo[s]).final]
<1>1. /\ todo[s] \in Seq(Chunks) /\ todo[s] # <<>>
  BY DEF Submit, TypeInv
<1>2. /\ Head(todo[s]) = todo[s][1] /\ todo[s][1] \in Chunks
      /\ Tail(todo[s]) \in Seq(Chunks) /\ Len(Tail(todo[s])) = Len(todo[s]) - 1
      /\ \A i \in 1..Len(todo[s]) - 1 : Tail(todo[s])[i] = todo[s][i + 1]
  BY <1>1, HeadTailProperties
<1>3. x \in QueueItems BY <1>2 DEF QueueItems, Chunks
<1> HIDE DEF x
<1>4. queue' = Append(queue, x) BY DEF Submit, Enqueue, x
<1>5. queue' \in Seq(QueueItems) /\ Len(queue') = Len(queue) + 1 /\ Len(queue) \in Nat
  BY <1>3, <1>4, AppendProperties DEF TypeInv
<1>6. todo'[s] = Tail(todo[s]) /\ todo' \in [Streams -> Seq(Chunks)]
  BY <1>2 DEF Submit, Enqueue, TypeInv
<1>7. /\ future' \in [Streams -> {"none", "pending", "cancelled", "result", "error"}]
      /\ rpc' \in [Streams -> Active \cup {"none", "ended", "cut"}]
  BY DEF Submit, Enqueue, Goto, TypeInv, TypeOK, Active
<1>8. Len(queue') <= MaxQueue
  <2>1. Len(queue) < MaxQueue BY DEF Submit
  <2>. QED BY <1>5, <2>1, Sizes
<1>9. UNCHANGED <<first, next, pending, buffer, ending, batch, caches, heard, phase>>
  BY DEF Submit, Enqueue, engine
<1>. QED BY <1>2, <1>5, <1>6, <1>7, <1>8, <1>9 DEF TypeInv, TypeOK

(* Every step keeps the types and the bounds.                              *)
LEMMA TypeStep ==
  ASSUME TypeInv, [Next]_vars
  PROVE  TypeInv'
<1>1. ASSUME NEW s \in Streams, Open(s) PROVE TypeInv'
  BY <1>1 DEF Open, Goto, assembler, scheduler, engine, TypeInv, TypeOK, Active
<1>2. ASSUME NEW s \in Streams, EndFrame(s) PROVE TypeInv'
  <2>1. /\ rpc' \in [Streams -> Active \cup {"none", "ended", "cut"}]
        /\ ending' \in [Streams -> BOOLEAN]
        /\ buffer' \in [Streams -> Seq(Nat)]
        /\ \A r \in Streams : buffer'[r] = <<>> \/ buffer'[r] = buffer[r]
    BY <1>2 DEF EndFrame, Goto, TypeInv, TypeOK, Active
  <2>2. todo' \in [Streams -> Seq(Chunks)]
    <3>1. [audio |-> buffer[s], final |-> TRUE] \in Chunks BY DEF TypeInv, Chunks
    <3>2. <<[audio |-> buffer[s], final |-> TRUE]>> \in Seq(Chunks) BY <3>1
    <3>. QED BY <1>2, <3>2 DEF EndFrame, TypeInv
  <2>3. \A r \in Streams : Len(buffer'[r]) < ChunkUnits
    <3>1. Len(<<>>) = 0 OBVIOUS
    <3>. QED BY <2>1, <3>1, Sizes DEF TypeInv, TypeOK
  <2>4. UNCHANGED <<first, next, pending, future, queue, batch, caches, heard, phase>>
    BY <1>2 DEF EndFrame, scheduler, engine
  <2>. QED BY <2>1, <2>2, <2>3, <2>4 DEF TypeInv, TypeOK
<1>3. ASSUME NEW s \in Streams, Reject(s) \/ SubmitFull(s) PROVE TypeInv'
  <2>1. Cut(s) /\ UNCHANGED <<queue, batch, caches, phase, future>>
    BY <1>3 DEF Reject, SubmitFull, scheduler
  <2>. QED BY <2>1, CutType DEF TypeInv, TypeOK
<1>4. ASSUME NEW s \in Streams, Submit(s) PROVE TypeInv'
  BY <1>4, EnqueueType
<1>5. ASSUME NEW s \in Streams, Awake(s) PROVE TypeInv'
  <2>1. UNCHANGED <<queue, batch, caches, phase, future>>
    BY <1>5 DEF Awake, scheduler
  <2>2. CASE Cut(s) BY <2>1, <2>2, CutType DEF TypeInv, TypeOK
  <2>3. CASE Goto(s, "serving") /\ UNCHANGED <<assembler, heard>>
    BY <2>1, <2>3 DEF Goto, assembler, TypeInv, TypeOK, Active
  <2>. QED BY <1>5, <2>2, <2>3 DEF Awake
<1>6. ASSUME NEW s \in Streams, Acknowledge(s) PROVE TypeInv'
  BY <1>6 DEF Acknowledge, Goto, assembler, scheduler, engine, TypeInv, TypeOK, Active
<1>7. ASSUME NEW s \in Streams, Cancel(s) PROVE TypeInv'
  <2>1. future' \in [Streams -> {"none", "pending", "cancelled", "result", "error"}]
    BY <1>7 DEF Cancel, TypeInv, TypeOK
  <2>2. Cut(s) /\ UNCHANGED <<queue, batch, caches, phase>> BY <1>7 DEF Cancel
  <2>. QED BY <2>1, <2>2, CutType
<1>8. ASSUME NEW s \in Streams, NEW q \in 0..MaxSequence[s], Frame(s, q) PROVE TypeInv'
  BY <1>8, FrameType
<1>9. ASSUME Stop PROVE TypeInv'
  BY <1>9 DEF Stop, assembler, scheduler, engine, TypeInv, TypeOK
<1>10. CASE UNCHANGED vars
  BY <1>10 DEF vars, assembler, scheduler, engine, TypeInv, TypeOK, Active, Chunks, QueueItems
<1>. QED
  BY <1>1, <1>2, <1>3, <1>4, <1>5, <1>6, <1>7, <1>8, <1>9, <1>10, SchedulerType
  DEF Next, Handler

LEMMA InitType ==
  ASSUME Init
  PROVE  TypeInv
<1>1. \A s \in Streams : MaxSequence[s] \in Nat OBVIOUS
<1>2. Len(<<>>) = 0 OBVIOUS
<1>. QED BY <1>1, <1>2, Sizes DEF Init, TypeInv, TypeOK, Active, Chunks, QueueItems

LEMMA Typing == Spec => []TypeInv
<1>1. Init => TypeInv BY InitType
<1>2. TypeInv /\ [Next]_vars => TypeInv' BY TypeStep
<1>. QED BY <1>1, <1>2, PTL DEF Spec

-----------------------------------------------------------------------------
(* Handlers, their chunks and the scheduler.                               *)

(* A call that is cut has not got its future pending.                      *)
LEMMA CutMeans ==
  ASSUME TypeInv, FutureInv, NEW s \in Streams,
         Reject(s) \/ SubmitFull(s) \/ Cancel(s) \/ (Awake(s) /\ future[s] = "error")
  PROVE  /\ UNCHANGED <<queue, batch, caches, phase>>
         /\ future'[s] # "pending"
         /\ future'[s] = future[s] \/ (future[s] = "pending" /\ future'[s] = "cancelled")
         /\ \A r \in Streams : r # s =>
               /\ rpc'[r] = rpc[r] /\ future'[r] = future[r] /\ heard'[r] = heard[r]
               /\ first'[r] = first[r] /\ next'[r] = next[r] /\ buffer'[r] = buffer[r]
               /\ todo'[r] = todo[r] /\ ending'[r] = ending[r]
         /\ rpc'[s] = "cut" /\ first'[s] = -1 /\ next'[s] = -1 /\ buffer'[s] = <<>>
         /\ todo'[s] = <<>> /\ ending'[s] = FALSE /\ heard'[s] = <<>>
<1>1. /\ Cut(s) /\ UNCHANGED <<queue, batch, caches, phase>>
      /\ \A r \in Streams : r # s => future'[r] = future[r]
      /\ future'[s] # "pending"
      /\ future'[s] = future[s] \/ (future[s] = "pending" /\ future'[s] = "cancelled")
  <2>1. CASE Reject(s) BY <2>1 DEF Reject, FutureInv, scheduler
  <2>2. CASE SubmitFull(s) BY <2>2 DEF SubmitFull, FutureInv, scheduler
  <2>3. CASE Cancel(s) BY <2>3 DEF Cancel, TypeInv, TypeOK
  <2>4. CASE Awake(s) /\ future[s] = "error" BY <2>4 DEF Awake, scheduler
  <2>. QED BY <2>1, <2>2, <2>3, <2>4
<1>. QED BY <1>1 DEF Cut, Goto, TypeInv, TypeOK

LEMMA AwakeMeans ==
  ASSUME NEW s \in Streams, Awake(s), ~(future[s] = "error")
  PROVE  /\ rpc[s] = "waiting" /\ future[s] = "result" /\ Goto(s, "serving")
         /\ UNCHANGED <<assembler, scheduler, engine, phase>>
BY DEF Awake, engine

LEMMA FutureStep ==
  ASSUME TypeInv, FutureInv, [Next]_vars
  PROVE  FutureInv'
<1> USE DEF FutureInv
<1>1. ASSUME NEW s \in Streams, Open(s) \/ EndFrame(s) \/ Acknowledge(s) PROVE FutureInv'
  BY <1>1 DEF Open, EndFrame, Acknowledge, Goto, scheduler, TypeInv, TypeOK
<1>2. ASSUME NEW s \in Streams,
             Reject(s) \/ SubmitFull(s) \/ Cancel(s) \/ (Awake(s) /\ future[s] = "error")
      PROVE  FutureInv'
  <2>1. /\ \A r \in Streams : r # s => rpc'[r] = rpc[r] /\ future'[r] = future[r]
        /\ rpc'[s] = "cut" /\ future'[s] # "pending"
    BY <1>2, CutMeans
  <2>. QED BY <2>1
<1>3. ASSUME NEW s \in Streams, Submit(s) PROVE FutureInv'
  BY <1>3 DEF Submit, Enqueue, Goto, TypeInv, TypeOK
<1>4. ASSUME NEW s \in Streams, Awake(s), ~(future[s] = "error") PROVE FutureInv'
  BY <1>4, AwakeMeans DEF Goto, scheduler, TypeInv, TypeOK
<1>5. ASSUME NEW s \in Streams, NEW q \in 0..MaxSequence[s], Frame(s, q) PROVE FutureInv'
  BY <1>5 DEF Frame, Goto, scheduler, TypeInv, TypeOK
<1>6. CASE Recognize \/ EngineRaises
  BY <1>6 DEF Recognize, EngineRaises, Settle, TypeInv, TypeOK
<1>7. CASE CloseScheduler
  BY <1>7 DEF CloseScheduler, TypeInv, TypeOK
<1>8. CASE Tick \/ Stop \/ UNCHANGED vars
  BY <1>8 DEF Tick, Stop, vars, scheduler
<1>. QED BY <1>1, <1>2, <1>3, <1>4, <1>5, <1>6, <1>7, <1>8 DEF Next, Handler

LEMMA TodoStep ==
  ASSUME TypeInv, FutureInv, TodoInv, [Next]_vars
  PROVE  TodoInv'
<1>0. ASSUME NEW r \in Streams, rpc'[r] = rpc[r], todo'[r] = todo[r], ending'[r] = ending[r],
             buffer'[r] = buffer[r]
      PROVE  TodoInvOf(r)'
  BY <1>0 DEF TodoInv, TodoInvOf
<1>1. ASSUME NEW s \in Streams, Open(s) \/ Acknowledge(s) PROVE TodoInv'
  <2>1. /\ UNCHANGED <<todo, ending, buffer>>
        /\ \A r \in Streams : r # s => rpc'[r] = rpc[r]
        /\ \/ rpc'[s] = "reading" /\ rpc[s] = "none"
           \/ /\ todo[s] = <<>> /\ rpc[s] = "serving"
              /\ rpc'[s] = IF ending[s] THEN "ended" ELSE "reading"
    BY <1>1 DEF Open, Acknowledge, Goto, assembler, TypeInv, TypeOK
  <2>2. TodoInvOf(s)' BY <2>1 DEF TodoInv, TodoInvOf
  <2>. QED BY <1>0, <2>1, <2>2 DEF TodoInv
<1>2. ASSUME NEW s \in Streams,
             Reject(s) \/ SubmitFull(s) \/ Cancel(s) \/ (Awake(s) /\ future[s] = "error")
      PROVE  TodoInv'
  <2>1. /\ \A r \in Streams : r # s => /\ rpc'[r] = rpc[r] /\ todo'[r] = todo[r]
                                     /\ ending'[r] = ending[r] /\ buffer'[r] = buffer[r]
        /\ rpc'[s] = "cut" /\ todo'[s] = <<>> /\ ending'[s] = FALSE
    BY <1>2, CutMeans
  <2>2. TodoInvOf(s)' BY <2>1 DEF TodoInvOf
  <2>. QED BY <1>0, <2>1, <2>2 DEF TodoInv
<1>3. ASSUME NEW s \in Streams, EndFrame(s) PROVE TodoInv'
  <2>1. /\ \A r \in Streams : r # s => /\ rpc'[r] = rpc[r] /\ todo'[r] = todo[r]
                                     /\ ending'[r] = ending[r] /\ buffer'[r] = buffer[r]
        /\ rpc'[s] = "serving" /\ todo'[s] = <<[audio |-> buffer[s], final |-> TRUE]>>
        /\ ending'[s] = TRUE /\ buffer'[s] = <<>>
    BY <1>3 DEF EndFrame, Goto, TypeInv, TypeOK
  <2>2. TodoInvOf(s)'
    <3>1. DOMAIN todo'[s] = {1} /\ Len(todo'[s]) <= 1 /\ todo'[s][1].final = TRUE BY <2>1
    <3>2. rpc'[s] = "serving" /\ ending'[s] = TRUE /\ buffer'[s] = <<>> BY <2>1
    <3>. QED BY <3>1, <3>2 DEF TodoInvOf
  <2>. QED BY <1>0, <2>1, <2>2 DEF TodoInv
<1>4. ASSUME NEW s \in Streams, Submit(s) PROVE TodoInv'
  <2>1. /\ \A r \in Streams : r # s => rpc'[r] = rpc[r] /\ todo'[r] = todo[r]
        /\ rpc'[s] = "waiting" /\ UNCHANGED <<ending, buffer>>
    BY <1>4 DEF Submit, Enqueue, Goto, TypeInv, TypeOK
  <2>2. /\ todo[s] \in Seq(Chunks) /\ todo'[s] \in Seq(Chunks)
        /\ Len(todo'[s]) = Len(todo[s]) - 1
        /\ \A i \in 1..Len(todo[s]) - 1 : todo'[s][i] = todo[s][i + 1]
    BY <1>4, EnqueueType DEF TypeInv
  <2>3. ASSUME NEW i \in DOMAIN todo'[s]
        PROVE  i + 1 \in DOMAIN todo[s] /\ todo'[s][i] = todo[s][i + 1]
    <3>1. i \in 1..Len(todo'[s]) BY <2>2
    <3>2. Len(todo[s]) \in Nat /\ DOMAIN todo[s] = 1..Len(todo[s]) BY <2>2
    <3>. QED BY <2>2, <3>1, <3>2, SMTT(30)
  <2>4. ending[s] => todo'[s] = <<>> /\ Len(todo'[s]) <= 1
    <3>1. Len(todo[s]) \in Nat /\ Len(todo'[s]) \in Nat BY <2>2
    <3>2. Len(todo'[s]) = Len(todo[s]) - 1 BY <2>2
    <3>3. ASSUME ending[s] PROVE todo'[s] = <<>> /\ Len(todo'[s]) <= 1
      <4>1. Len(todo[s]) <= 1 BY <3>3 DEF TodoInv, TodoInvOf
      <4> DEFINE l == Len(todo[s])
                 k == Len(todo'[s])
      <4>2. k = l - 1 /\ l \in Nat /\ k \in Nat /\ l <= 1 BY <3>1, <3>2, <4>1
      <4> HIDE DEF l, k
      <4>3. k = 0 BY <4>2
      <4>. QED BY <2>2, <4>3 DEF k
    <3>. QED BY <3>3
  <2>5. TodoInvOf(s)' BY <2>1, <2>3, <2>4 DEF TodoInv, TodoInvOf
  <2>. QED BY <1>0, <2>1, <2>5 DEF TodoInv
<1>5. ASSUME NEW s \in Streams, Awake(s), ~(future[s] = "error") PROVE TodoInv'
  <2>1. /\ UNCHANGED <<todo, ending, buffer>>
        /\ \A r \in Streams : r # s => rpc'[r] = rpc[r]
        /\ rpc'[s] = "serving" /\ rpc[s] = "waiting"
    BY <1>5, AwakeMeans DEF Goto, assembler, TypeInv, TypeOK
  <2>2. TodoInvOf(s)' BY <2>1 DEF TodoInv, TodoInvOf
  <2>. QED BY <1>0, <2>1, <2>2 DEF TodoInv
<1>6. ASSUME NEW s \in Streams, NEW q \in 0..MaxSequence[s], Frame(s, q) PROVE TodoInv'
  <2>1. /\ \A r \in Streams : r # s => /\ rpc'[r] = rpc[r] /\ todo'[r] = todo[r]
                                     /\ buffer'[r] = buffer[r]
        /\ rpc'[s] = "serving" /\ rpc[s] = "reading" /\ ending' = ending
    BY <1>6 DEF Frame, Push, Goto, TypeInv, TypeOK
  <2>2. PICK a \in Nat, m \in Nat, n \in Nat, audio \in Seq(Nat) : Pushed(s, a, m, n, audio)
    BY <1>6, PushMeans DEF Frame
  <2>3. ASSUME NEW i \in DOMAIN todo'[s]
        PROVE  todo'[s][i].final = FALSE /\ Len(todo'[s][i].audio) = ChunkUnits
    BY <2>2, PushedChunks, Zenon
  <2>4. ending'[s] = FALSE BY <2>1 DEF TodoInv, TodoInvOf, TypeInv, TypeOK
  <2>5. TodoInvOf(s)' BY <2>1, <2>3, <2>4 DEF TodoInvOf
  <2>. QED BY <1>0, <2>1, <2>5 DEF TodoInv
<1>7. ASSUME UNCHANGED <<rpc, todo, ending, buffer>> PROVE TodoInv'
  BY <1>0, <1>7 DEF TodoInv
<1>8. Tick \/ Recognize \/ EngineRaises \/ Stop \/ CloseScheduler \/ UNCHANGED vars
        => UNCHANGED <<rpc, todo, ending, buffer>>
  BY DEF Tick, Recognize, EngineRaises, Stop, CloseScheduler, vars, assembler
<1>. QED BY <1>1, <1>2, <1>3, <1>4, <1>5, <1>6, <1>7, <1>8 DEF Next, Handler

(* A stream whose chunk is with the scheduler is waiting, or was cut.      *)
LEMMA ItemStreams ==
  ASSUME TypeInv, FutureInv, ItemInv,
         NEW s \in StreamsOf(queue) \cup StreamsOf(batch)
  PROVE  /\ s \in Streams /\ future[s] \in {"pending", "cancelled"}
         /\ rpc[s] \in {"waiting", "cut"}
<1>1. ASSUME NEW items \in Seq(QueueItems), Unsettled(items), s \in StreamsOf(items)
      PROVE  s \in Streams /\ future[s] \in {"pending", "cancelled"}
  <2>1. PICK i \in DOMAIN items : s = items[i].stream BY <1>1 DEF StreamsOf
  <2>2. items[i] \in QueueItems BY <2>1
  <2>. QED BY <1>1, <2>1, <2>2 DEF Unsettled, QueueItems
<1>2. s \in Streams /\ future[s] \in {"pending", "cancelled"}
  BY <1>1 DEF TypeInv, ItemInv
<1>. QED BY <1>2 DEF FutureInv, TypeInv, TypeOK

(* Items kept by place are distinct and unsettled as they were.            *)
LEMMA ChosenItemsKept ==
  ASSUME NEW q \in Seq(QueueItems), Distinct(q), Unsettled(q),
         NEW I \in SUBSET (1..Len(q))
  PROVE  /\ Distinct(Chosen(q, I)) /\ Unsettled(Chosen(q, I))
         /\ StreamsOf(Chosen(q, I)) = {q[i].stream : i \in I}
<1> DEFINE c == Chosen(q, I)
           f == Ascending(I)
<1>1. /\ c \in Seq(QueueItems) /\ Len(c) \in Nat /\ f \in [1..Len(c) -> I]
      /\ \A l, m \in 1..Len(c) : l < m => f[l] < f[m]
      /\ \A n \in 1..Len(c) : c[n] = q[f[n]]
      /\ \A i \in I : \E n \in 1..Len(c) : f[n] = i
  BY ChosenProperties DEF Enumerations
<1> HIDE DEF c, f
<1>2. DOMAIN c = 1..Len(c) /\ DOMAIN q = 1..Len(q) BY <1>1
<1>3. ASSUME NEW n \in DOMAIN c PROVE f[n] \in I /\ f[n] \in DOMAIN q /\ c[n] = q[f[n]]
  BY <1>1, <1>2
<1>4. ASSUME NEW l \in DOMAIN c, NEW m \in DOMAIN c, c[l].stream = c[m].stream
      PROVE  l = m
  <2>1. f[l] = f[m] BY <1>3, <1>4 DEF Distinct
  <2>2. l \in 1..Len(c) /\ m \in 1..Len(c) /\ l \in Int /\ m \in Int BY <1>2
  <2>3. f[l] \in 1..Len(q) BY <1>2, <1>3
  <2>4. ~ f[l] < f[m] /\ ~ f[m] < f[l] BY <2>1, <2>3
  <2>5. ~ l < m /\ ~ m < l BY <1>1, <2>2, <2>4
  <2>. QED BY <2>2, <2>5
<1>5. Unsettled(c) BY <1>3 DEF Unsettled
<1>6. StreamsOf(c) = {q[i].stream : i \in I}
  <2>1. ASSUME NEW i \in I PROVE \E n \in DOMAIN c : c[n].stream = q[i].stream
    <3>1. PICK n \in 1..Len(c) : f[n] = i BY <1>1
    <3>2. n \in DOMAIN c BY <1>2
    <3>. QED BY <1>3, <3>1, <3>2
  <2>. QED BY <1>3, <2>1 DEF StreamsOf
<1>. QED BY <1>4, <1>5, <1>6 DEF Distinct, c

(* submit puts one more chunk at the end of the queue.                     *)
LEMMA SubmitMeans ==
  ASSUME TypeInv, TodoInv, NEW s \in Streams, Submit(s)
  PROVE  \E x \in QueueItems :
            /\ x.stream = s /\ x.audio = todo[s][1].audio /\ x.final = ending[s]
            /\ queue' = Append(queue, x) /\ DOMAIN queue' = 1..Len(queue) + 1
            /\ \A i \in 1..Len(queue) : queue'[i] = queue[i]
            /\ queue'[Len(queue) + 1] = x /\ Len(queue) \in Nat
            /\ StreamsOf(queue') = StreamsOf(queue) \cup {s}
<1> DEFINE x == [stream |-> s, audio |-> Head(todo[s]).audio, final |-> Head(todo[s]).final]
<1>1. Head(todo[s]) = todo[s][1] /\ todo[s][1] \in Chunks /\ 1 \in DOMAIN todo[s]
  <2>1. todo[s] \in Seq(Chunks) /\ todo[s] # <<>> BY DEF Submit, TypeInv
  <2>2. 1 \in DOMAIN todo[s] BY <2>1
  <2>. QED BY <2>2, EnqueueType
<1>2. /\ x \in QueueItems /\ x.stream = s /\ x.audio = todo[s][1].audio
      /\ x.final = ending[s]
  BY <1>1 DEF QueueItems, Chunks, TodoInv, TodoInvOf
<1> HIDE DEF x
<1>3. queue' = Append(queue, x) BY DEF Submit, Enqueue, x
<1>4. queue \in Seq(QueueItems) /\ Len(queue) \in Nat /\ DOMAIN queue = 1..Len(queue)
  BY DEF TypeInv
<1>5. /\ DOMAIN queue' = 1..Len(queue) + 1
      /\ \A i \in 1..Len(queue) : queue'[i] = queue[i]
      /\ queue'[Len(queue) + 1] = x
  BY <1>2, <1>3, <1>4, AppendProperties
<1>6. StreamsOf(queue') = StreamsOf(queue) \cup {s}
  <2>1. 1..Len(queue) + 1 = 1..Len(queue) \cup {Len(queue) + 1} BY <1>4
  <2>2. ASSUME NEW i \in 1..Len(queue) PROVE i \in DOMAIN queue' /\ queue'[i] = queue[i]
    BY <1>5, <2>1
  <2>3. Len(queue) + 1 \in DOMAIN queue' BY <1>5, <2>1
  <2>. QED BY <1>2, <1>4, <1>5, <2>1, <2>2, <2>3, SMTT(30) DEF StreamsOf
<1>. QED BY <1>2, <1>3, <1>4, <1>5, <1>6

LEMMA ItemStep ==
  ASSUME TypeInv, FutureInv, TodoInv, ItemInv, [Next]_vars
  PROVE  ItemInv'
<1>1. ASSUME UNCHANGED <<queue, batch>>,
             \A r \in StreamsOf(queue) \cup StreamsOf(batch) :
                \/ future'[r] = future[r] /\ ending'[r] = ending[r]
                \/ future'[r] = "cancelled"
      PROVE  ItemInv'
  <2>1. ASSUME NEW items \in {queue, batch}, NEW i \in DOMAIN items
        PROVE  /\ future'[items[i].stream] \in {"pending", "cancelled"}
               /\ future'[items[i].stream] = "pending" =>
                    items[i].final = ending'[items[i].stream]
    <3>1. items[i].stream \in StreamsOf(queue) \cup StreamsOf(batch) BY DEF StreamsOf
    <3>2. Unsettled(items) BY DEF ItemInv
    <3>. QED BY <1>1, <3>1, <3>2 DEF Unsettled
  <2>2. Unsettled(queue)' /\ Unsettled(batch)' BY <1>1, <2>1 DEF Unsettled
  <2>3. Distinct(queue)' /\ Distinct(batch)' /\ (StreamsOf(queue) \cap StreamsOf(batch) = {})'
    BY <1>1 DEF ItemInv, Distinct, StreamsOf
  <2>. QED BY <2>2, <2>3 DEF ItemInv
<1>2. ASSUME NEW s \in Streams, Open(s) \/ Acknowledge(s) PROVE ItemInv'
  <2>1. UNCHANGED <<queue, batch, future, ending>>
    BY <1>2 DEF Open, Acknowledge, scheduler, assembler
  <2>. QED BY <1>1, <2>1
<1>3. ASSUME NEW s \in Streams,
             Reject(s) \/ SubmitFull(s) \/ Cancel(s) \/ (Awake(s) /\ future[s] = "error")
      PROVE  ItemInv'
  <2>1. /\ UNCHANGED <<queue, batch>>
        /\ \A r \in Streams : r # s => future'[r] = future[r] /\ ending'[r] = ending[r]
        /\ future'[s] # "pending"
        /\ future'[s] = future[s] \/ future'[s] = "cancelled"
    BY <1>3, CutMeans
  <2>2. ASSUME NEW r \in StreamsOf(queue) \cup StreamsOf(batch)
        PROVE  \/ future'[r] = future[r] /\ ending'[r] = ending[r]
               \/ future'[r] = "cancelled"
    <3>1. r \in Streams /\ future[r] \in {"pending", "cancelled"} BY ItemStreams
    <3>. QED BY <2>1, <3>1
  <2>. QED BY <1>1, <2>1, <2>2
<1>4. ASSUME NEW s \in Streams, EndFrame(s) PROVE ItemInv'
  <2>1. /\ UNCHANGED <<queue, batch, future>> /\ rpc[s] = "reading"
        /\ \A r \in Streams : r # s => ending'[r] = ending[r]
    BY <1>4 DEF EndFrame, scheduler, TypeInv, TypeOK
  <2>2. ASSUME NEW r \in StreamsOf(queue) \cup StreamsOf(batch)
        PROVE  future'[r] = future[r] /\ ending'[r] = ending[r]
    <3>1. r \in Streams /\ rpc[r] \in {"waiting", "cut"} BY ItemStreams
    <3>. QED BY <2>1, <3>1
  <2>. QED BY <1>1, <2>1, <2>2
<1>5. ASSUME NEW s \in Streams, Submit(s) PROVE ItemInv'
  <2>1. PICK x \in QueueItems :
            /\ x.stream = s /\ x.final = ending[s]
            /\ DOMAIN queue' = 1..Len(queue) + 1
            /\ \A i \in 1..Len(queue) : queue'[i] = queue[i]
            /\ queue'[Len(queue) + 1] = x /\ Len(queue) \in Nat
            /\ StreamsOf(queue') = StreamsOf(queue) \cup {s}
    BY <1>5, SubmitMeans
  <2>2. /\ rpc[s] = "serving" /\ UNCHANGED <<ending, batch>> /\ future'[s] = "pending"
        /\ \A r \in Streams : r # s => future'[r] = future[r]
    BY <1>5 DEF Submit, Enqueue, TypeInv, TypeOK
  <2>3. s \notin StreamsOf(queue) \cup StreamsOf(batch)
    <3>1. ASSUME s \in StreamsOf(queue) \cup StreamsOf(batch) PROVE FALSE
      <4>1. rpc[s] \in {"waiting", "cut"} BY <3>1, ItemStreams
      <4>. QED BY <2>2, <4>1
    <3>. QED BY <3>1
  <2>4. \A r \in StreamsOf(queue) \cup StreamsOf(batch) : r \in Streams /\ r # s
    BY <2>3, ItemStreams
  <2>5. DOMAIN queue = 1..Len(queue) BY DEF TypeInv
  <2>6. ASSUME NEW i \in DOMAIN queue' PROVE i \in DOMAIN queue \/ i = Len(queue) + 1
    BY <2>1, <2>5
  <2>7. ASSUME NEW i \in DOMAIN queue
        PROVE  /\ queue'[i] = queue[i] /\ queue[i].stream # s
               /\ queue[i].stream \in StreamsOf(queue) /\ queue[i].stream \in Streams
    <3>1. queue[i].stream \in StreamsOf(queue) BY DEF StreamsOf
    <3>. QED BY <2>1, <2>4, <2>5, <3>1
  <2>8. Distinct(queue')
    <3>1. ASSUME NEW i \in DOMAIN queue', NEW j \in DOMAIN queue',
                 queue'[i].stream = queue'[j].stream
          PROVE  i = j
      <4>1. CASE i \in DOMAIN queue /\ j \in DOMAIN queue
        BY <2>7, <3>1, <4>1 DEF ItemInv, Distinct
      <4>2. CASE i = Len(queue) + 1 BY <2>1, <2>6, <2>7, <3>1, <4>2
      <4>3. CASE j = Len(queue) + 1 BY <2>1, <2>6, <2>7, <3>1, <4>3
      <4>. QED BY <2>6, <4>1, <4>2, <4>3
    <3>. QED BY <3>1 DEF Distinct
  <2>9. ASSUME NEW i \in DOMAIN queue'
        PROVE  /\ future'[queue'[i].stream] \in {"pending", "cancelled"}
               /\ future'[queue'[i].stream] = "pending" =>
                    queue'[i].final = ending'[queue'[i].stream]
    <3>1. CASE i \in DOMAIN queue
      BY <2>2, <2>7, <3>1 DEF ItemInv, Unsettled
    <3>2. CASE i = Len(queue) + 1 BY <2>1, <2>2, <3>2
    <3>. QED BY <2>6, <3>1, <3>2
  <2>10. ASSUME NEW i \in DOMAIN batch
         PROVE  /\ future'[batch[i].stream] \in {"pending", "cancelled"}
                /\ future'[batch[i].stream] = "pending" =>
                     batch[i].final = ending[batch[i].stream]
    <3>1. batch[i].stream \in StreamsOf(batch) BY DEF StreamsOf
    <3>. QED BY <2>2, <2>4, <3>1 DEF ItemInv, Unsettled
  <2>11. Unsettled(queue)' /\ Unsettled(batch)' BY <2>2, <2>9, <2>10 DEF Unsettled
  <2>12. Distinct(batch)' /\ Distinct(queue)' BY <2>2, <2>8 DEF ItemInv, Distinct
  <2>13. StreamsOf(batch)' = StreamsOf(batch) /\ StreamsOf(queue)' = StreamsOf(queue')
    BY <2>2 DEF StreamsOf
  <2>. QED BY <2>1, <2>3, <2>11, <2>12, <2>13 DEF ItemInv
<1>6. ASSUME NEW s \in Streams, Awake(s), ~(future[s] = "error") PROVE ItemInv'
  <2>1. UNCHANGED <<queue, batch, future, ending>>
    BY <1>6, AwakeMeans DEF scheduler, assembler
  <2>. QED BY <1>1, <2>1
<1>7. ASSUME NEW s \in Streams, NEW q \in 0..MaxSequence[s], Frame(s, q) PROVE ItemInv'
  <2>1. UNCHANGED <<queue, batch, future, ending>> BY <1>7 DEF Frame, scheduler
  <2>. QED BY <1>1, <2>1
<1>8. CASE Tick
  <2>1. /\ batch' = Chosen(queue, Taken) /\ queue' = Chosen(queue, Rest)
        /\ Taken \in SUBSET (1..Len(queue)) /\ Rest \in SUBSET (1..Len(queue))
        /\ Taken \cap Rest = {}
    BY <1>8, TickMeans DEF Rest
  <2>2. queue \in Seq(QueueItems) /\ Distinct(queue) /\ Unsettled(queue)
        /\ DOMAIN queue = 1..Len(queue)
    BY DEF TypeInv, ItemInv
  <2>3. /\ Distinct(batch') /\ Unsettled(batch')
        /\ StreamsOf(batch') = {queue[i].stream : i \in Taken}
    BY <2>1, <2>2, ChosenItemsKept
  <2>4. /\ Distinct(queue') /\ Unsettled(queue')
        /\ StreamsOf(queue') = {queue[i].stream : i \in Rest}
    BY <2>1, <2>2, ChosenItemsKept
  <2>5. StreamsOf(queue') \cap StreamsOf(batch') = {}
    <3>1. ASSUME NEW i \in Taken, NEW j \in Rest, queue[i].stream = queue[j].stream
          PROVE  FALSE
      BY <2>1, <2>2, <3>1 DEF Distinct
    <3>. QED BY <2>3, <2>4, <3>1
  <2>6. UNCHANGED <<future, ending>> BY <1>8 DEF Tick, assembler
  <2>. QED BY <2>3, <2>4, <2>5, <2>6 DEF ItemInv, Distinct, Unsettled, StreamsOf
<1>9. CASE Recognize \/ EngineRaises
  <2>1. /\ batch' = <<>> /\ UNCHANGED <<queue, ending>>
        /\ \A r \in Streams : r \notin StreamsOf(batch) => future'[r] = future[r]
    BY <1>9 DEF Recognize, EngineRaises, Settle, assembler
  <2>2. ASSUME NEW i \in DOMAIN queue
        PROVE  future'[queue[i].stream] = future[queue[i].stream]
    <3>1. queue[i].stream \in StreamsOf(queue) BY DEF StreamsOf
    <3>2. queue[i].stream \in Streams BY <3>1, ItemStreams
    <3>. QED BY <2>1, <3>1, <3>2 DEF ItemInv
  <2>3. Distinct(queue)' /\ Unsettled(queue)'
    BY <2>1, <2>2 DEF ItemInv, Distinct, Unsettled
  <2>4. Distinct(batch)' /\ Unsettled(batch)' /\ StreamsOf(batch)' = {}
    BY <2>1 DEF Distinct, Unsettled, StreamsOf
  <2>. QED BY <2>3, <2>4 DEF ItemInv
<1>10. CASE CloseScheduler
  <2>1. queue' = <<>> /\ batch' = <<>> BY <1>10 DEF CloseScheduler
  <2>. QED BY <2>1 DEF ItemInv, Distinct, Unsettled, StreamsOf
<1>11. CASE Stop \/ UNCHANGED vars
  <2>1. UNCHANGED <<queue, batch, future, ending>>
    BY <1>11 DEF Stop, vars, scheduler, assembler
  <2>. QED BY <1>1, <2>1
<1>. QED
  BY <1>2, <1>3, <1>4, <1>5, <1>6, <1>7, <1>8, <1>9, <1>10, <1>11 DEF Next, Handler

LEMMA AwaitedStep ==
  ASSUME TypeInv, FutureInv, TodoInv, ItemInv, AwaitedChunkExists, [Next]_vars
  PROVE  AwaitedChunkExists'
<1> SUFFICES ASSUME NEW r \in Streams, rpc'[r] = "waiting", future'[r] = "pending"
             PROVE  r \in StreamsOf(queue') \cup StreamsOf(batch')
  BY DEF AwaitedChunkExists, StreamsOf
<1>0. rpc[r] = "waiting" /\ future[r] = "pending"
        => r \in StreamsOf(queue) \cup StreamsOf(batch)
  BY DEF AwaitedChunkExists
<1>1. ASSUME UNCHANGED <<queue, batch>>,
             rpc'[r] = rpc[r] /\ future'[r] = future[r]
      PROVE  r \in StreamsOf(queue') \cup StreamsOf(batch')
  BY <1>0, <1>1
<1>2. ASSUME NEW s \in Streams, Open(s) \/ Acknowledge(s) \/ EndFrame(s)
      PROVE  r \in StreamsOf(queue') \cup StreamsOf(batch')
  <2>1. /\ UNCHANGED <<queue, batch, future>>
        /\ rpc'[s] # "waiting" /\ \A x \in Streams : x # s => rpc'[x] = rpc[x]
    BY <1>2 DEF Open, Acknowledge, EndFrame, Goto, scheduler, TypeInv, TypeOK
  <2>. QED BY <1>1, <2>1
<1>3. ASSUME NEW s \in Streams,
             Reject(s) \/ SubmitFull(s) \/ Cancel(s) \/ (Awake(s) /\ future[s] = "error")
      PROVE  r \in StreamsOf(queue') \cup StreamsOf(batch')
  <2>1. /\ UNCHANGED <<queue, batch>> /\ rpc'[s] = "cut"
        /\ \A x \in Streams : x # s => rpc'[x] = rpc[x] /\ future'[x] = future[x]
    BY <1>3, CutMeans
  <2>. QED BY <1>1, <2>1
<1>4. ASSUME NEW s \in Streams, Submit(s)
      PROVE  r \in StreamsOf(queue') \cup StreamsOf(batch')
  <2>1. StreamsOf(queue') = StreamsOf(queue) \cup {s} BY <1>4, SubmitMeans
  <2>2. /\ UNCHANGED batch
        /\ \A x \in Streams : x # s => rpc'[x] = rpc[x] /\ future'[x] = future[x]
    BY <1>4 DEF Submit, Enqueue, Goto, TypeInv, TypeOK
  <2>. QED BY <1>0, <2>1, <2>2
<1>5. ASSUME NEW s \in Streams, Awake(s), ~(future[s] = "error")
      PROVE  r \in StreamsOf(queue') \cup StreamsOf(batch')
  <2>1. /\ UNCHANGED <<queue, batch, future>>
        /\ rpc'[s] = "serving" /\ \A x \in Streams : x # s => rpc'[x] = rpc[x]
    BY <1>5, AwakeMeans DEF Goto, scheduler, TypeInv, TypeOK
  <2>. QED BY <1>1, <2>1
<1>6. ASSUME NEW s \in Streams, NEW q \in 0..MaxSequence[s], Frame(s, q)
      PROVE  r \in StreamsOf(queue') \cup StreamsOf(batch')
  <2>1. /\ UNCHANGED <<queue, batch, future>>
        /\ rpc'[s] = "serving" /\ \A x \in Streams : x # s => rpc'[x] = rpc[x]
    BY <1>6 DEF Frame, Goto, scheduler, TypeInv, TypeOK
  <2>. QED BY <1>1, <2>1
<1>7. CASE Tick
  <2>1. UNCHANGED <<rpc, future>> /\ batch = <<>> BY <1>7 DEF Tick
  <2>2. PICK i \in DOMAIN queue : queue[i].stream = r
    BY <1>0, <2>1 DEF StreamsOf
  <2>3. i \in Taken \/ i \in Rest
    BY <2>1, <2>2 DEF Rest, Dropped, Cancelled
  <2>4. /\ batch' = Chosen(queue, Taken) /\ queue' = Chosen(queue, Rest)
        /\ Taken \in SUBSET (1..Len(queue)) /\ Rest \in SUBSET (1..Len(queue))
    BY <1>7, TickMeans
  <2>5. queue \in Seq(QueueItems) /\ Distinct(queue) /\ Unsettled(queue)
    BY DEF TypeInv, ItemInv
  <2>6. StreamsOf(batch') = {queue[j].stream : j \in Taken} BY <2>4, <2>5, ChosenItemsKept
  <2>7. StreamsOf(queue') = {queue[j].stream : j \in Rest} BY <2>4, <2>5, ChosenItemsKept
  <2>. QED BY <2>2, <2>3, <2>6, <2>7
<1>8. CASE Recognize \/ EngineRaises
  <2>1. UNCHANGED <<rpc, queue>> BY <1>8 DEF Recognize, EngineRaises
  <2>2. r \notin StreamsOf(batch) /\ future[r] = "pending"
    BY <1>8 DEF Recognize, EngineRaises, Settle
  <2>. QED BY <1>0, <2>1, <2>2
<1>9. CASE CloseScheduler
  BY <1>9 DEF CloseScheduler, Active
<1>10. CASE Stop \/ UNCHANGED vars
  <2>1. UNCHANGED <<queue, batch, future, rpc>> BY <1>10 DEF Stop, vars, scheduler
  <2>. QED BY <1>1, <2>1
<1>. QED
  BY <1>2, <1>3, <1>4, <1>5, <1>6, <1>7, <1>8, <1>9, <1>10 DEF Next, Handler

(* Each handler's future, chunks and item agree, in every reachable state. *)
HandlerInv == TypeInv /\ FutureInv /\ TodoInv /\ ItemInv

LEMMA Handlers == Spec => []HandlerInv
<1>1. Init => HandlerInv
  <2>1. Init => TypeInv BY InitType
  <2>2. Init => FutureInv /\ TodoInv /\ ItemInv
    BY DEF Init, FutureInv, TodoInv, TodoInvOf, ItemInv, Distinct, Unsettled, StreamsOf
  <2>. QED BY <2>1, <2>2 DEF HandlerInv
<1>2. HandlerInv /\ [Next]_vars => HandlerInv'
  BY TypeStep, FutureStep, TodoStep, ItemStep DEF HandlerInv
<1>. QED BY <1>1, <1>2, PTL DEF Spec

(* The queue and the batch keep their bounds and every chunk that a        *)
(* handler waits for, however ticks, cancellations, errors of the model    *)
(* and the shutdown interleave.                                            *)
THEOREM NoChunkIsLost == Spec => []ChunksAreKept
<1>1. Init => AwaitedChunkExists BY DEF Init, AwaitedChunkExists
<1>2. HandlerInv /\ AwaitedChunkExists /\ [Next]_vars => AwaitedChunkExists'
  BY AwaitedStep DEF HandlerInv
<1>3. HandlerInv /\ AwaitedChunkExists => ChunksAreKept
  BY DEF HandlerInv, TypeInv, ChunksAreKept
<1>. QED BY <1>1, <1>2, <1>3, Handlers, PTL DEF Spec

-----------------------------------------------------------------------------
(* The caches of the engine.                                               *)

LEMMA UnfinishedStays ==
  ASSUME HandlerInv, [Next]_vars, ~Recognize, ~EngineRaises,
         NEW r \in Streams, Unfinished(r)
  PROVE  Unfinished(r)'
<1> USE DEF Unfinished, Active
<1>0. TypeInv /\ FutureInv /\ TodoInv BY DEF HandlerInv
<1>1. ASSUME rpc'[r] = rpc[r], ending'[r] = ending[r], todo'[r] = todo[r],
             future'[r] = future[r]
      PROVE  Unfinished(r)'
  BY <1>1
<1>2. ASSUME NEW s \in Streams, Open(s) \/ Acknowledge(s) PROVE Unfinished(r)'
  <2>1. /\ UNCHANGED <<future, ending, todo>>
        /\ \A x \in Streams : x # s => rpc'[x] = rpc[x]
        /\ \/ rpc[s] = "none"
           \/ /\ todo[s] = <<>> /\ rpc[s] = "serving"
              /\ rpc'[s] = IF ending[s] THEN "ended" ELSE "reading"
    BY <1>0, <1>2 DEF Open, Acknowledge, Goto, scheduler, assembler, TypeInv, TypeOK
  <2>. QED BY <1>1, <2>1
<1>3. ASSUME NEW s \in Streams, EndFrame(s) PROVE Unfinished(r)'
  <2>1. /\ UNCHANGED <<future>> /\ rpc'[s] = "serving"
        /\ todo'[s] = <<[audio |-> buffer[s], final |-> TRUE]>>
        /\ \A x \in Streams : x # s => /\ rpc'[x] = rpc[x] /\ todo'[x] = todo[x]
                                     /\ ending'[x] = ending[x]
    BY <1>0, <1>3 DEF EndFrame, Goto, scheduler, TypeInv, TypeOK
  <2>2. todo'[s] # <<>> BY <2>1
  <2>. QED BY <1>1, <2>1, <2>2
<1>4. ASSUME NEW s \in Streams,
             Reject(s) \/ SubmitFull(s) \/ Cancel(s) \/ (Awake(s) /\ future[s] = "error")
      PROVE  Unfinished(r)'
  <2>1. /\ rpc'[s] = "cut"
        /\ \A x \in Streams : x # s => /\ rpc'[x] = rpc[x] /\ future'[x] = future[x]
                                     /\ ending'[x] = ending[x] /\ todo'[x] = todo[x]
    BY <1>0, <1>4, CutMeans
  <2>. QED BY <1>1, <2>1
<1>5. ASSUME NEW s \in Streams, Submit(s) PROVE Unfinished(r)'
  <2>1. /\ rpc'[s] = "waiting" /\ future'[s] = "pending"
        /\ \A x \in Streams : x # s => /\ rpc'[x] = rpc[x] /\ future'[x] = future[x]
                                     /\ ending'[x] = ending[x] /\ todo'[x] = todo[x]
    BY <1>0, <1>5 DEF Submit, Enqueue, Goto, TypeInv, TypeOK
  <2>. QED BY <1>1, <2>1
<1>6. ASSUME NEW s \in Streams, Awake(s), ~(future[s] = "error") PROVE Unfinished(r)'
  <2>1. /\ UNCHANGED <<future, ending, todo>> /\ rpc[s] = "waiting" /\ future[s] = "result"
        /\ rpc'[s] = "serving" /\ \A x \in Streams : x # s => rpc'[x] = rpc[x]
    BY <1>0, <1>6, AwakeMeans DEF Goto, scheduler, assembler, TypeInv, TypeOK
  <2>. QED BY <1>1, <2>1
<1>7. ASSUME NEW s \in Streams, NEW q \in 0..MaxSequence[s], Frame(s, q) PROVE Unfinished(r)'
  <2>1. /\ UNCHANGED <<future, ending>> /\ rpc[s] = "reading" /\ rpc'[s] = "serving"
        /\ \A x \in Streams : x # s => rpc'[x] = rpc[x] /\ todo'[x] = todo[x]
    BY <1>0, <1>7 DEF Frame, Push, Goto, scheduler, TypeInv, TypeOK
  <2>2. ~ending[s] BY <1>0, <2>1 DEF TodoInv, TodoInvOf
  <2>. QED BY <1>1, <2>1, <2>2
<1>8. CASE Tick \/ Stop \/ UNCHANGED vars
  <2>1. UNCHANGED <<rpc, ending, todo, future>>
    BY <1>8 DEF Tick, Stop, vars, scheduler, assembler
  <2>. QED BY <1>1, <2>1
<1>9. CASE CloseScheduler
  BY <1>9 DEF CloseScheduler
<1>. QED BY <1>2, <1>3, <1>4, <1>5, <1>6, <1>7, <1>8, <1>9 DEF Next, Handler

(* An engine step leaves a cache only to a stream that is not finished.    *)
LEMMA EngineKeepsCaches ==
  ASSUME HandlerInv, CacheInv, Recognize \/ EngineRaises, NEW k \in caches'
  PROVE  \E s \in Streams : Key[s] = k /\ Unfinished(s)'
<1> USE DEF Unfinished, Active
<1>0. TypeInv /\ FutureInv /\ ItemInv BY DEF HandlerInv
<1>1. /\ UNCHANGED <<rpc, ending, todo>>
      /\ \A s \in Streams :
            \/ future'[s] = future[s] /\ (s \notin StreamsOf(batch) \/ future[s] # "pending")
            \/ /\ s \in StreamsOf(batch) /\ future[s] = "pending"
               /\ future'[s] = IF Recognize THEN "result" ELSE "error"
      /\ DOMAIN batch = 1..Len(batch) /\ Len(batch) \in Nat
  <2>1. UNCHANGED <<rpc, ending, todo>> BY DEF Recognize, EngineRaises, assembler
  <2>2. CASE Recognize BY <1>0, <2>1, <2>2 DEF Recognize, Settle, TypeInv
  <2>3. CASE ~Recognize BY <1>0, <2>1, <2>3 DEF EngineRaises, Settle, TypeInv
  <2>. QED BY <2>2, <2>3
<1>2. ASSUME NEW s \in Streams, future[s] = "pending" \/ future[s] = "cancelled"
      PROVE  /\ future[s] = "pending" => rpc[s] = "waiting"
             /\ future[s] = "cancelled" => rpc[s] = "cut"
  BY <1>0, <1>2 DEF FutureInv
<1>3. ASSUME NEW i \in DOMAIN batch
      PROVE  /\ batch[i].stream \in Streams /\ batch[i].stream \in StreamsOf(batch)
             /\ future[batch[i].stream] \in {"pending", "cancelled"}
             /\ future[batch[i].stream] = "pending" =>
                   batch[i].final = ending[batch[i].stream]
  <2>1. batch[i].stream \in StreamsOf(batch) BY DEF StreamsOf
  <2>2. batch[i].stream \in Streams BY <1>0, <2>1, ItemStreams
  <2>. QED BY <1>0, <2>1, <2>2 DEF ItemInv, Unsettled
<1>4. CASE \E i \in DOMAIN batch : Key[batch[i].stream] = k
  <2>1. PICK i \in DOMAIN batch : Key[batch[i].stream] = k BY <1>4
  <2> DEFINE s == batch[i].stream
  <2>2. s \in Streams /\ Key[s] = k /\ s \in StreamsOf(batch) BY <1>3, <2>1
  <2>3. CASE future[s] = "cancelled"
    <3>1. rpc[s] = "cut" BY <1>2, <2>2, <2>3
    <3>. QED BY <1>1, <2>2, <3>1
  <2>4. CASE future[s] = "pending" /\ Recognize
    <3>1. batch[i] \in Items(Len(batch)) BY <1>1 DEF Items
    <3>2. ~batch[i].final
      <4>1. caches' = CachesAfter(Len(batch)) BY <2>4 DEF Recognize
      <4>2. ASSUME batch[i].final PROVE FALSE
        <5>1. k \in {KeyOf(x) : x \in {y \in Items(Len(batch)) : y.final}}
          BY <2>1, <3>1, <4>2 DEF KeyOf
        <5>. QED BY <4>1, <5>1 DEF CachesAfter
      <4>. QED BY <4>2
    <3>3. rpc[s] = "waiting" /\ ~ending[s] BY <1>2, <1>3, <2>2, <2>4, <3>2
    <3>. QED BY <1>1, <2>2, <3>3
  <2>5. CASE future[s] = "pending" /\ ~Recognize
    <3>1. future'[s] = "error" /\ rpc'[s] = "waiting" BY <1>1, <1>2, <2>2, <2>5
    <3>. QED BY <2>2, <3>1
  <2>. QED BY <1>3, <2>3, <2>4, <2>5
<1>5. CASE ~\E i \in DOMAIN batch : Key[batch[i].stream] = k
  <2>1. k \in caches
    <3>1. ASSUME NEW n \in 0..Len(batch), NEW x \in Items(n) PROVE KeyOf(x) # k
      <4>1. PICK i \in 1..n : x = batch[i] BY DEF Items
      <4>2. i \in DOMAIN batch BY <1>1
      <4>. QED BY <1>5, <4>1, <4>2 DEF KeyOf
    <3>2. ASSUME NEW n \in 0..Len(batch), k \in CachesAfter(n) PROVE k \in caches
      BY <3>1, <3>2 DEF CachesAfter
    <3>3. CASE Recognize
      <4>1. Len(batch) \in 0..Len(batch) BY <1>1
      <4>. QED BY <3>2, <3>3, <4>1 DEF Recognize
    <3>4. CASE EngineRaises
      <4>1. PICK n \in DOMAIN batch : \E opened \in SUBSET {KeyOf(batch[n])} :
              caches' = CachesAfter(n - 1) \cup opened
        BY <3>4 DEF EngineRaises
      <4>2. n - 1 \in 0..Len(batch) BY <1>1
      <4>3. KeyOf(batch[n]) # k BY <1>5 DEF KeyOf
      <4>4. k \in CachesAfter(n - 1) BY <4>1, <4>3
      <4>. QED BY <3>2, <4>2, <4>4
    <3>. QED BY <3>3, <3>4
  <2>2. PICK s \in Streams : Key[s] = k /\ Unfinished(s) BY <2>1 DEF CacheInv
  <2>3. s \notin StreamsOf(batch)
    <3>1. ASSUME s \in StreamsOf(batch) PROVE FALSE
      <4>1. PICK i \in DOMAIN batch : s = batch[i].stream BY <3>1 DEF StreamsOf
      <4>. QED BY <1>5, <2>2, <4>1
    <3>. QED BY <3>1
  <2>4. future'[s] = future[s] BY <1>1, <2>3
  <2>. QED BY <1>1, <2>2, <2>4
<1>. QED BY <1>4, <1>5

LEMMA CacheStep ==
  ASSUME HandlerInv, CacheInv, [Next]_vars
  PROVE  CacheInv'
<1>1. CASE Recognize \/ EngineRaises
  BY <1>1, EngineKeepsCaches DEF CacheInv, Unfinished
<1>2. CASE ~Recognize /\ ~EngineRaises
  <2>1. UNCHANGED caches
    BY <1>2 DEF Next, Handler, Open, EndFrame, Reject, Submit, Enqueue, SubmitFull, Awake,
                Acknowledge, Cancel, Frame, Tick, Stop, CloseScheduler, vars, engine
  <2>2. ASSUME NEW k \in caches' PROVE \E s \in Streams : Key[s] = k /\ Unfinished(s)'
    <3>1. PICK s \in Streams : Key[s] = k /\ Unfinished(s) BY <2>1 DEF CacheInv
    <3>2. Unfinished(s)' BY <1>2, <3>1, UnfinishedStays
    <3>. QED BY <3>1, <3>2
  <2>. QED BY <2>2 DEF CacheInv, Unfinished
<1>. QED BY <1>1, <1>2

(* When every stream of a session has ended as it should, the engine keeps *)
(* no cache of it, however its streams' chunks were batched.               *)
THEOREM CachesAreDropped == Spec => []EndedSessionIsForgotten
<1>1. Init => CacheInv BY DEF Init, CacheInv
<1>2. HandlerInv /\ CacheInv /\ [Next]_vars => CacheInv' BY CacheStep
<1>3. CacheInv => EndedSessionIsForgotten
  BY DEF CacheInv, EndedSessionIsForgotten, Unfinished, Active
<1>. QED BY <1>1, <1>2, <1>3, Handlers, PTL DEF Spec

-----------------------------------------------------------------------------
(* Audio.                                                                  *)

LEMMA FollowsEmpty ==
  ASSUME NEW a, NEW b
  PROVE  Follows(<<>>, a, b)
BY DEF Follows

LEMMA FollowsConcat ==
  ASSUME NEW p \in Seq(Nat), NEW q \in Seq(Nat), NEW a \in Int, NEW b \in Int,
         Follows(p, a, b), Follows(q, a, b + Len(p))
  PROVE  Follows(p \o q, a, b)
<1> DEFINE r == p \o q
<1>1. /\ Len(p) \in Nat /\ Len(q) \in Nat /\ DOMAIN p = 1..Len(p) /\ DOMAIN q = 1..Len(q)
      /\ r \in Seq(Nat) /\ Len(r) = Len(p) + Len(q)
      /\ \A i \in 1..Len(p) + Len(q) :
            r[i] = IF i <= Len(p) THEN p[i] ELSE q[i - Len(p)]
  BY ConcatProperties
<1> HIDE DEF r
<1>2. DOMAIN r = 1..Len(p) + Len(q) BY <1>1
<1>3. ASSUME NEW i \in DOMAIN r PROVE r[i] = a + (b + i - 1) \div FrameUnits
  <2>1. i \in 1..Len(p) + Len(q) BY <1>2
  <2>2. CASE i <= Len(p)
    <3>1. i \in DOMAIN p /\ r[i] = p[i] BY <1>1, <2>1, <2>2
    <3>. QED BY <3>1 DEF Follows
  <2>3. CASE ~ i <= Len(p)
    <3> DEFINE j == i - Len(p)
    <3>1. j \in 1..Len(q) /\ r[i] = q[j] BY <1>1, <2>1, <2>3
    <3>2. (b + Len(p)) + j - 1 = b + i - 1 BY <1>1, <2>1
    <3> HIDE DEF j
    <3>3. q[j] = a + ((b + Len(p)) + j - 1) \div FrameUnits BY <1>1, <3>1 DEF Follows
    <3>. QED BY <3>1, <3>2, <3>3
  <2>. QED BY <2>2, <2>3
<1>. QED BY <1>3 DEF Follows, r

LEMMA ShiftWithin ==
  ASSUME NEW k \in Nat, NEW m \in Nat, NEW n \in Nat, k + m <= n, NEW j \in 1..m
  PROVE  k + j \in 1..n
OBVIOUS

(* A part of it, without its first k units.                                *)
LEMMA FollowsPart ==
  ASSUME NEW audio \in Seq(Nat), NEW a \in Int, NEW b \in Int, Follows(audio, a, b),
         NEW c \in Seq(Nat), NEW k \in Nat, k + Len(c) <= Len(audio),
         \A j \in 1..Len(c) : c[j] = audio[k + j]
  PROVE  Follows(c, a, b + k)
<1>1. /\ Len(c) \in Nat /\ Len(audio) \in Nat
      /\ DOMAIN c = 1..Len(c) /\ DOMAIN audio = 1..Len(audio)
  BY LenProperties
<1>2. ASSUME NEW j \in DOMAIN c PROVE c[j] = a + ((b + k) + j - 1) \div FrameUnits
  <2>1. k + j \in DOMAIN audio /\ c[j] = audio[k + j]
    <3>1. j \in 1..Len(c) BY <1>1, Zenon
    <3>2. k + j \in 1..Len(audio) BY <1>1, <3>1, ShiftWithin
    <3>. QED BY <1>1, <3>1, <3>2, Zenon
  <2>2. audio[k + j] = a + (b + (k + j) - 1) \div FrameUnits BY <2>1 DEF Follows
  <2>3. b + (k + j) - 1 = (b + k) + j - 1 BY <1>1
  <2>. QED BY <2>1, <2>2, <2>3
<1>. QED BY <1>2 DEF Follows

(* The frames from number a on are those from f on, less a - f frames.     *)
LEMMA DivisionShift ==
  ASSUME NEW d \in Nat, NEW x \in Nat, NEW c \in Nat, c > 0
  PROVE  (d * c + x) \div c = d + x \div c
<1> DEFINE q == x \div c
           p == (d * c + x) \div c
<1>1. q \in Nat /\ q * c <= x /\ x < q * c + c BY Division
<1>2. d * c + x \in Nat OBVIOUS
<1>3. p \in Nat /\ p * c <= d * c + x /\ d * c + x < p * c + c BY <1>2, Division
<1> HIDE DEF p, q
<1>4. ~ p < d + q
  <2>1. ASSUME p < d + q PROVE FALSE
    <3>1. p + 1 <= d + q BY <1>1, <1>3, <2>1
    <3>2. (p + 1) * c <= (d + q) * c BY <1>1, <1>3, <3>1
    <3>3. (p + 1) * c = p * c + c /\ (d + q) * c = d * c + q * c BY <1>1, <1>3
    <3>. QED BY <1>1, <1>3, <3>2, <3>3
  <2>. QED BY <2>1
<1>5. ~ p > d + q
  <2>1. ASSUME p > d + q PROVE FALSE
    <3>1. d + q + 1 <= p BY <1>1, <1>3, <2>1
    <3>2. (d + q + 1) * c <= p * c BY <1>1, <1>3, <3>1
    <3>3. (d + q + 1) * c = d * c + q * c + c BY <1>1
    <3>. QED BY <1>1, <1>3, <3>2, <3>3
  <2>. QED BY <2>1
<1>6. p = d + q BY <1>1, <1>3, <1>4, <1>5
<1>. QED BY <1>6 DEF p, q

LEMMA AudioFollows ==
  ASSUME NEW a \in Nat, NEW f \in Nat, f <= a, NEW m \in Nat
  PROVE  Follows(Audio(a, m), f, (a - f) * FrameUnits)
<1>1. /\ DOMAIN Audio(a, m) = 1..m * FrameUnits /\ m * FrameUnits \in Nat
      /\ \A i \in 1..m * FrameUnits : Audio(a, m)[i] = a + (i - 1) \div FrameUnits
  BY AudioType
<1>2. ASSUME NEW i \in DOMAIN Audio(a, m)
      PROVE  Audio(a, m)[i] = f + ((a - f) * FrameUnits + i - 1) \div FrameUnits
  <2> DEFINE d == a - f
             x == i - 1
  <2>1. d \in Nat /\ x \in Nat /\ i \in 1..m * FrameUnits BY <1>1
  <2>2. Audio(a, m)[i] = a + x \div FrameUnits BY <1>1, <2>1
  <2>3. a = f + d BY <2>1
  <2>4. d * FrameUnits + i - 1 = d * FrameUnits + x BY <1>1, <2>1, Sizes
  <2> HIDE DEF d, x
  <2>5. (d * FrameUnits + x) \div FrameUnits = d + x \div FrameUnits
    BY <2>1, Sizes, DivisionShift
  <2>6. x \div FrameUnits \in Nat BY <2>1, Sizes, Division
  <2> DEFINE y == x \div FrameUnits
  <2> HIDE DEF y
  <2>7. f + (d + y) = f + d + y BY <2>1, <2>6 DEF y
  <2>. QED BY <2>2, <2>3, <2>4, <2>5, <2>7 DEF d, y
<1>. QED BY <1>2 DEF Follows

LEMMA FollowsWhole ==
  ASSUME NEW q \in Seq(Nat), NEW a \in Nat, NEW n \in Nat,
         Follows(q, a, 0), Len(q) = n * FrameUnits
  PROVE  q = Audio(a, n)
<1>1. /\ Audio(a, n) \in Seq(Nat) /\ Len(Audio(a, n)) = n * FrameUnits
      /\ n * FrameUnits \in Nat
      /\ \A i \in 1..n * FrameUnits : Audio(a, n)[i] = a + (i - 1) \div FrameUnits
  BY AudioType
<1>2. ASSUME NEW i \in 1..Len(q) PROVE q[i] = Audio(a, n)[i]
  <2>1. q[i] = a + (0 + i - 1) \div FrameUnits BY SMTT(30) DEF Follows
  <2>2. 0 + i - 1 = i - 1 OBVIOUS
  <2>3. Audio(a, n)[i] = a + (i - 1) \div FrameUnits BY <1>1
  <2>. QED BY <2>1, <2>2, <2>3
<1> DEFINE b == Audio(a, n)
<1>3. b \in Seq(Nat) /\ Len(b) = Len(q) /\ \A i \in 1..Len(q) : q[i] = b[i] BY <1>1, <1>2
<1> HIDE DEF b
<1>4. q = b BY <1>3
<1>. QED BY <1>4 DEF b

LEMMA AudioTypes ==
  ASSUME TypeInv, NEW s \in Streams
  PROVE  /\ Units(s) \in Int /\ Unsent(s) \in Int /\ Len(buffer[s]) \in Nat
         /\ Len(heard[s]) \in Nat /\ first[s] \in Int
         /\ heard[s] \in Seq(Nat) /\ buffer[s] \in Seq(Nat) /\ todo[s] \in Seq(Chunks)
         /\ ending[s] \in BOOLEAN
<1>1. /\ Len(buffer[s]) \in Nat /\ Len(heard[s]) \in Nat /\ first[s] \in Int
      /\ next[s] \in Int /\ Len(todo[s]) \in Nat
      /\ heard[s] \in Seq(Nat) /\ buffer[s] \in Seq(Nat) /\ todo[s] \in Seq(Chunks)
      /\ ending[s] \in BOOLEAN
  BY DEF TypeInv, TypeOK
<1>2. Units(s) \in Int
  <2>1. (next[s] - first[s]) * FrameUnits \in Int BY <1>1, Sizes
  <2>. QED BY <2>1 DEF Units
<1>3. Unsent(s) \in Int
  <2>1. Len(todo[s]) * ChunkUnits \in Int BY <1>1, Sizes
  <2>2. todo[s] # <<>> => Len(todo[s][1].audio) \in Nat
    <3>1. ASSUME todo[s] # <<>> PROVE todo[s][1] \in Chunks BY <1>1, <3>1
    <3>. QED BY <3>1, LenProperties DEF Chunks
  <2> DEFINE y == Len(todo[s]) * ChunkUnits
             z == Len(todo[s][1].audio)
  <2>3. Unsent(s) = Len(buffer[s]) + IF ending[s] THEN IF todo[s] = <<>> THEN 0 ELSE z ELSE y
    BY Zenon DEF Unsent
  <2>4. y \in Int /\ (todo[s] # <<>> => z \in Nat) BY <2>1, <2>2
  <2> HIDE DEF y, z
  <2>. QED BY <1>1, <2>3, <2>4
<1>. QED BY <1>1, <1>2, <1>3

(* Of a stream that is left alone, but for items that go and a result that *)
(* comes back.                                                             *)
LEMMA AudioStays ==
  ASSUME TypeInv, NEW r \in Streams, AudioInvOf(r),
         \A x \in Held' : x.stream = r => x \in Held,
         heard'[r] = heard[r], first'[r] = first[r], next'[r] = next[r],
         todo'[r] = todo[r], buffer'[r] = buffer[r], ending'[r] = ending[r],
         \/ rpc'[r] = rpc[r] /\ future'[r] = future[r]
         \/ rpc'[r] # "waiting" /\ (rpc[r] # "waiting" \/ future[r] = "result")
  PROVE  AudioInvOf(r)'
<1> DEFINE sent == Units(r) - Unsent(r)
<1>1. Units(r)' = Units(r) /\ Unsent(r)' = Unsent(r) BY DEF Units, Unsent
<1>2. /\ Follows(heard[r], first[r], 0)
      /\ \A i \in DOMAIN todo[r] :
            Follows(todo[r][i].audio, first[r], sent + (i - 1) * ChunkUnits)
      /\ Follows(buffer[r], first[r], Units(r) - Len(buffer[r]))
      /\ rpc[r] # "waiting" \/ future[r] = "result" => Len(heard[r]) = sent
      /\ \A x \in Held : x.stream = r /\ rpc[r] = "waiting" =>
             /\ Follows(x.audio, first[r], Len(heard[r]))
             /\ Len(heard[r]) + Len(x.audio) = sent
  BY Zenon DEF AudioInvOf
<1>3. rpc'[r] # "waiting" \/ future'[r] = "result" => Len(heard[r]) = sent
  BY <1>2
<1>4. \A x \in Held' : x.stream = r /\ rpc'[r] = "waiting" =>
             /\ Follows(x.audio, first[r], Len(heard[r]))
             /\ Len(heard[r]) + Len(x.audio) = sent
  BY <1>2
<1>. QED BY <1>1, <1>2, <1>3, <1>4, ZenonT(40) DEF AudioInvOf, Follows

LEMMA AudioCut ==
  ASSUME NEW s \in Streams, heard'[s] = <<>>, next'[s] = -1, todo'[s] = <<>>,
         buffer'[s] = <<>>, ending'[s] = FALSE, rpc'[s] # "waiting"
  PROVE  AudioInvOf(s)'
<1>1. Units(s)' = 0 /\ Unsent(s)' = 0 BY Sizes DEF Units, Unsent
<1>2. Len(heard'[s]) = Units(s)' - Unsent(s)' BY <1>1
<1>. QED BY <1>2 DEF AudioInvOf, Follows

LEMMA AudioEnd ==
  ASSUME TypeInv, TodoInv, NEW s \in Streams, EndFrame(s), AudioInvOf(s)
  PROVE  AudioInvOf(s)'
<1>1. /\ rpc[s] = "reading" /\ todo[s] = <<>> /\ ~ending[s]
  BY DEF EndFrame, TodoInv, TodoInvOf
<1>2. /\ rpc'[s] = "serving" /\ buffer'[s] = <<>> /\ ending'[s] = TRUE
      /\ todo'[s] = <<[audio |-> buffer[s], final |-> TRUE]>>
      /\ heard' = heard /\ first' = first /\ next' = next
  BY DEF EndFrame, Goto, engine, TypeInv, TypeOK
<1>3. DOMAIN todo'[s] = {1} /\ todo'[s] # <<>> /\ todo'[s][1].audio = buffer[s] BY <1>2
<1> DEFINE l == Len(buffer[s])
           u == Units(s)
<1>4. l \in Nat /\ u \in Int BY AudioTypes
<1>5. Unsent(s) = l
  <2>1. Unsent(s) = l + Len(todo[s]) * ChunkUnits BY <1>1, Zenon DEF Unsent
  <2>2. Len(todo[s]) = 0 BY <1>1
  <2>3. 0 * ChunkUnits = 0 BY Sizes
  <2>. QED BY <1>4, <2>1, <2>2, <2>3
<1>6. Units(s)' = u BY <1>2 DEF Units
<1>7. Unsent(s)' = l
  <2>1. Len(buffer'[s]) = 0 BY <1>2
  <2>2. Unsent(s)' = Len(buffer'[s]) + Len(todo'[s][1].audio) BY <1>2, <1>3, Zenon DEF Unsent
  <2>. QED BY <1>3, <1>4, <2>1, <2>2
<1>8. /\ Follows(heard[s], first[s], 0) /\ Follows(buffer[s], first[s], u - l)
      /\ Len(heard[s]) = u - l
  BY <1>1, <1>5, Zenon DEF AudioInvOf
<1> HIDE DEF l, u
<1>9. \A i \in DOMAIN todo'[s] :
        Follows(todo'[s][i].audio, first[s], (u - l) + (i - 1) * ChunkUnits)
  <2>1. (u - l) + (1 - 1) * ChunkUnits = u - l BY <1>4, Sizes
  <2>2. Follows(todo'[s][1].audio, first[s], (u - l) + (1 - 1) * ChunkUnits)
    BY <1>3, <1>8, <2>1
  <2>. QED BY <1>3, <2>2
<1>10. Follows(buffer'[s], first[s], u - Len(buffer'[s])) BY <1>2 DEF Follows
<1>11. rpc'[s] # "waiting" BY <1>2
<1>. QED BY <1>2, <1>6, <1>7, <1>8, <1>9, <1>10, <1>11, Zenon DEF AudioInvOf, Follows

LEMMA AudioSubmit ==
  ASSUME TypeInv, FutureInv, TodoInv, ItemInv, NEW s \in Streams, Submit(s), AudioInvOf(s)
  PROVE  AudioInvOf(s)'
<1> DEFINE n == Len(todo[s])
           h == Len(heard[s])
           b == Len(buffer[s])
           u == Units(s)
           l == Len(todo[s][1].audio)
           f == first[s]
<1>1. /\ rpc[s] = "serving" /\ todo[s] # <<>> /\ rpc'[s] = "waiting" /\ future'[s] = "pending"
      /\ UNCHANGED <<heard, first, next, buffer, ending, batch>>
  BY DEF Submit, Enqueue, Goto, engine, TypeInv, TypeOK
<1>2. /\ todo[s] \in Seq(Chunks) /\ todo'[s] \in Seq(Chunks) /\ Len(todo'[s]) = n - 1
      /\ \A i \in 1..n - 1 : todo'[s][i] = todo[s][i + 1]
      /\ todo[s][1] \in Chunks
  BY EnqueueType DEF TypeInv
<1>3. /\ n \in Nat /\ n >= 1 /\ h \in Nat /\ b \in Nat /\ u \in Int /\ l \in Nat
      /\ f \in Int /\ DOMAIN todo[s] = 1..n /\ DOMAIN todo'[s] = 1..n - 1
      /\ ending[s] \in BOOLEAN
  <2>1. l \in Nat BY <1>2, LenProperties DEF Chunks
  <2>2. n \in Nat /\ n # 0 BY <1>1, <1>2
  <2>. QED BY <1>2, <2>1, <2>2, AudioTypes
<1>4. /\ ending[s] => n <= 1 /\ b = 0
      /\ ~ending[s] => l = ChunkUnits
  <2>1. ending[s] => n <= 1 /\ buffer[s] = <<>> BY DEF TodoInv, TodoInvOf
  <2>2. ~ending[s] => l = ChunkUnits BY <1>3 DEF TodoInv, TodoInvOf
  <2>. QED BY <2>1, <2>2
<1>5. Unsent(s) = b + IF ending[s] THEN l ELSE n * ChunkUnits
  BY <1>1, Zenon DEF Unsent
<1>6. Unsent(s)' = b + IF ending[s] THEN IF todo'[s] = <<>> THEN 0 ELSE Len(todo'[s][1].audio)
                                    ELSE (n - 1) * ChunkUnits
  BY <1>1, <1>2, Zenon DEF Unsent
<1>7. Units(s)' = u BY <1>1 DEF Units
<1>8. ending[s] => todo'[s] = <<>>
  <2>1. ASSUME ending[s] PROVE todo'[s] = <<>>
    <3> HIDE DEF n
    <3>1. n - 1 = 0 BY <1>3, <1>4, <2>1
    <3>2. Len(todo'[s]) = 0 BY <1>2, <3>1
    <3>. QED BY <1>2, <3>2
  <2>. QED BY <2>1
<1> DEFINE sent == u - Unsent(s)
           sentNext == u - Unsent(s)'
<1>9. /\ Follows(heard[s], f, 0)
      /\ \A i \in 1..n : Follows(todo[s][i].audio, f, sent + (i - 1) * ChunkUnits)
      /\ Follows(buffer[s], f, u - b) /\ h = sent
  BY <1>1, <1>3, Zenon DEF AudioInvOf
<1> HIDE DEF n, h, b, u, l, f
<1>10. /\ sentNext = sent + l /\ sent \in Int /\ sentNext \in Int
  <2>1. CASE ending[s] BY <1>3, <1>5, <1>6, <1>8, <2>1
  <2>2. CASE ~ending[s]
    <3> DEFINE y == n * ChunkUnits
               z == (n - 1) * ChunkUnits
    <3>1. z = y - ChunkUnits /\ y \in Int /\ ChunkUnits \in Int BY <1>3, Sizes
    <3>2. Unsent(s) = b + y /\ Unsent(s)' = b + z BY <1>5, <1>6, <2>2
    <3> HIDE DEF y, z
    <3>. QED BY <1>3, <1>4, <2>2, <3>1, <3>2
  <2>. QED BY <2>1, <2>2
<1> HIDE DEF sent, sentNext
<1>11. ASSUME NEW i \in DOMAIN todo'[s]
       PROVE  Follows(todo'[s][i].audio, f, sentNext + (i - 1) * ChunkUnits)
  <2>1. i \in 1..n - 1 /\ ~ending[s] BY <1>3, <1>8
  <2>2. i + 1 \in 1..n /\ i \in Nat BY <1>3, <2>1
  <2>3. todo'[s][i] = todo[s][i + 1] BY <1>2, <2>1
  <2>4. Follows(todo[s][i + 1].audio, f, sent + ((i + 1) - 1) * ChunkUnits)
    BY <1>9, <2>2
  <2>5. sent + ((i + 1) - 1) * ChunkUnits = sentNext + (i - 1) * ChunkUnits
    <3> DEFINE y == ((i + 1) - 1) * ChunkUnits
               z == (i - 1) * ChunkUnits
    <3>1. y = z + ChunkUnits /\ z \in Int /\ ChunkUnits \in Int BY <2>2, Sizes
    <3> HIDE DEF y, z
    <3>2. sent + y = sentNext + z BY <1>4, <1>10, <2>1, <3>1
    <3>. QED BY <3>2 DEF y, z
  <2>. QED BY <2>3, <2>4, <2>5
<1>12. ASSUME NEW x \in Held', x.stream = s
       PROVE  Follows(x.audio, f, h) /\ h + Len(x.audio) = sentNext
  <2>1. PICK y \in QueueItems :
            /\ y.stream = s /\ y.audio = todo[s][1].audio
            /\ DOMAIN queue' = 1..Len(queue) + 1
            /\ \A i \in 1..Len(queue) : queue'[i] = queue[i]
            /\ queue'[Len(queue) + 1] = y /\ Len(queue) \in Nat
    BY SubmitMeans
  <2>2. s \notin StreamsOf(queue) \cup StreamsOf(batch)
    <3>1. ASSUME s \in StreamsOf(queue) \cup StreamsOf(batch) PROVE FALSE
      <4>1. rpc[s] \in {"waiting", "cut"} BY <3>1, ItemStreams
      <4>. QED BY <1>1, <4>1
    <3>. QED BY <3>1
  <2>3. x = y
    <3>1. DOMAIN queue = 1..Len(queue) BY DEF TypeInv
    <3>2. ASSUME NEW i \in DOMAIN queue' PROVE queue'[i] = y \/ queue'[i].stream # s
      <4>1. i \in DOMAIN queue \/ i = Len(queue) + 1 BY <2>1, <3>1
      <4>2. ASSUME i \in DOMAIN queue PROVE queue[i].stream # s
        BY <2>2, <4>2 DEF StreamsOf
      <4>. QED BY <2>1, <3>1, <4>1, <4>2
    <3>3. ASSUME NEW i \in DOMAIN batch' PROVE batch'[i].stream # s
      BY <1>1, <2>2 DEF StreamsOf
    <3>. QED BY <1>12, <3>2, <3>3 DEF Held
  <2>4. x.audio = todo[s][1].audio /\ 1 \in 1..n BY <1>3, <2>1, <2>3
  <2>5. sent + (1 - 1) * ChunkUnits = h BY <1>9, <1>10, Sizes
  <2>6. Follows(todo[s][1].audio, f, h) BY <1>9, <2>4, <2>5
  <2>7. h + Len(x.audio) = sentNext BY <1>9, <1>10, <2>4 DEF l
  <2>. QED BY <2>4, <2>6, <2>7
<1>13. Follows(buffer'[s], first'[s], Units(s)' - Len(buffer'[s])) BY <1>1, <1>7, <1>9 DEF b, f
<1>14. rpc'[s] = "waiting" /\ future'[s] # "result" BY <1>1
<1>15. Follows(heard'[s], first'[s], 0) BY <1>1, <1>9 DEF f
<1>16. /\ \A i \in DOMAIN todo'[s] :
            Follows(todo'[s][i].audio, first'[s], (Units(s)' - Unsent(s)') + (i - 1) * ChunkUnits)
       /\ \A x \in Held' : x.stream = s =>
             /\ Follows(x.audio, first'[s], Len(heard'[s]))
             /\ Len(heard'[s]) + Len(x.audio) = Units(s)' - Unsent(s)'
  BY <1>1, <1>7, <1>11, <1>12, Zenon DEF f, h, sentNext
<1>. QED BY <1>13, <1>14, <1>15, <1>16, Zenon DEF AudioInvOf, Follows

LEMMA AudioFrame ==
  ASSUME TypeInv, TodoInv, NEW s \in Streams, NEW q \in 0..MaxSequence[s],
         Frame(s, q), AudioInvOf(s)
  PROVE  AudioInvOf(s)'
<1>1. PICK a \in Nat, m \in Nat, n \in Nat, audio \in Seq(Nat) :
        Pushed(s, a, m, n, audio) /\ a = IF next[s] = -1 THEN q ELSE next[s]
  <2>1. Push(s, q) BY DEF Frame
  <2>. QED BY <2>1, PushMeans
<1>2. /\ rpc[s] = "reading" /\ ~ending[s] /\ todo[s] = <<>>
      /\ rpc'[s] = "serving" /\ ending'[s] = ending[s] /\ heard'[s] = heard[s]
      /\ first'[s] = IF first[s] = -1 THEN q ELSE first[s]
  BY DEF Frame, Push, Goto, engine, TypeInv, TypeOK, TodoInv, TodoInvOf
<1> DEFINE h == Len(heard[s])
           b == Len(buffer[s])
           u == Units(s)
           f == first'[s]
           l == Len(audio)
<1>3. /\ h \in Nat /\ b \in Nat /\ u \in Int /\ l \in Nat
      /\ heard[s] \in Seq(Nat) /\ buffer[s] \in Seq(Nat)
      /\ buffer'[s] \in Seq(Nat) /\ todo'[s] \in Seq(Chunks)
  <2>1. TypeInv' BY FrameType
  <2>2. buffer'[s] \in Seq(Nat) /\ todo'[s] \in Seq(Chunks) BY <2>1 DEF TypeInv
  <2>. QED BY <2>2, AudioTypes, LenProperties
<1>4. /\ h = u - b /\ Follows(heard[s], first[s], 0) /\ Follows(buffer[s], first[s], h)
  <2>1. Unsent(s) = b
    <3>1. Unsent(s) = b + Len(todo[s]) * ChunkUnits BY <1>2, Zenon DEF Unsent
    <3>2. Len(todo[s]) = 0 BY <1>2
    <3>3. 0 * ChunkUnits = 0 BY Sizes
    <3>. QED BY <1>3, <3>1, <3>2, <3>3
  <2>2. /\ Len(heard[s]) = Units(s) - Unsent(s) /\ Follows(heard[s], first[s], 0)
        /\ Follows(buffer[s], first[s], Units(s) - Len(buffer[s]))
    BY <1>2, Zenon DEF AudioInvOf
  <2>. QED BY <2>1, <2>2
<1>5. /\ f \in Nat /\ f <= a /\ u = (a - f) * FrameUnits
      /\ Follows(heard[s], f, 0) /\ Follows(buffer[s], f, h)
  <2>1. CASE next[s] = -1
    <3>1. first[s] = -1 /\ buffer[s] = <<>> BY <2>1 DEF TypeInv
    <3>2. f = q /\ a = q BY <1>1, <1>2, <2>1, <3>1
    <3>3. u = 0 /\ b = 0 BY <2>1, <3>1 DEF Units
    <3> HIDE DEF u, b
    <3>4. h = 0 BY <1>3, <1>4, <3>3
    <3>5. heard[s] = <<>> BY <1>3, <3>4
    <3>6. (a - f) * FrameUnits = 0
      <4>1. a - f = 0 BY <3>2
      <4>2. 0 * FrameUnits = 0 BY Sizes
      <4>. QED BY <4>1, <4>2
    <3>. QED BY <3>1, <3>2, <3>3, <3>5, <3>6 DEF Follows
  <2>2. CASE next[s] # -1
    <3>1. first[s] \in 0..next[s] BY <2>2 DEF TypeInv
    <3>2. f = first[s] /\ a = next[s] BY <1>1, <1>2, <2>2, <3>1
    <3>3. u = (next[s] - first[s]) * FrameUnits BY <2>2 DEF Units
    <3>. QED BY <1>4, <3>1, <3>2, <3>3
  <2>. QED BY <2>1, <2>2
<1>6. next'[s] = a + m /\ l = b + m * FrameUnits /\ m * FrameUnits \in Nat
  <2>1. l = b + m * FrameUnits BY <1>1, Zenon DEF Pushed
  <2>2. next'[s] = a + m BY <1>1, PushedBuffer
  <2>3. m * FrameUnits \in Nat BY Sizes
  <2>. QED BY <2>1, <2>2, <2>3
<1>7. Units(s)' = u + m * FrameUnits
  <2>1. Units(s)' = ((a + m) - f) * FrameUnits BY <1>6 DEF Units
  <2>2. ((a + m) - f) * FrameUnits = (a - f) * FrameUnits + m * FrameUnits
    <3> DEFINE d == a - f
    <3>0. f \in Nat /\ f <= a BY <1>5
    <3> HIDE DEF f
    <3>1. d \in Nat /\ (a + m) - f = d + m BY <3>0
    <3> HIDE DEF d
    <3>2. (d + m) * FrameUnits = d * FrameUnits + m * FrameUnits BY <3>1, Sizes
    <3>. QED BY <3>1, <3>2 DEF d
  <2>. QED BY <1>5, <2>1, <2>2
<1>8. Unsent(s)' = l
  <2>1. Unsent(s)' = Len(buffer'[s]) + Len(todo'[s]) * ChunkUnits BY <1>2, Zenon DEF Unsent
  <2>2. Len(todo'[s]) = n /\ Len(buffer'[s]) = l - n * ChunkUnits BY <1>1, PushedBuffer
  <2>3. n * ChunkUnits \in Int BY Sizes
  <2> DEFINE y == n * ChunkUnits
  <2>4. Unsent(s)' = (l - y) + y /\ y \in Int BY <2>1, <2>2, <2>3
  <2> HIDE DEF y, l
  <2>. QED BY <1>3, <2>4
<1>9. Follows(audio, f, h)
  <2>1. Follows(Audio(a, m), f, (a - f) * FrameUnits) BY <1>5, AudioFollows
  <2>2. h + b = (a - f) * FrameUnits
    <3> DEFINE y == (a - f) * FrameUnits
    <3>1. u = y BY <1>5
    <3> HIDE DEF y, u, b, h
    <3>2. h + b = y BY <1>3, <1>4, <3>1
    <3>. QED BY <3>2 DEF y
  <2>3. audio = buffer[s] \o Audio(a, m) BY <1>1, Zenon DEF Pushed
  <2>4. Audio(a, m) \in Seq(Nat) BY AudioType
  <2>5. f \in Int /\ h \in Int BY <1>3, <1>5
  <2>6. Follows(Audio(a, m), f, h + Len(buffer[s])) BY <2>1, <2>2
  <2> HIDE DEF h, f
  <2>. QED BY <1>3, <1>5, <2>3, <2>4, <2>5, <2>6, FollowsConcat
<1>10. Units(s)' - Unsent(s)' = h
  <2> DEFINE y == m * FrameUnits
  <2>1. Units(s)' = u + y /\ Unsent(s)' = b + y /\ y \in Nat BY <1>6, <1>7, <1>8
  <2> HIDE DEF y, u, b, h
  <2>. QED BY <1>3, <1>4, <2>1
<1>11. ASSUME NEW i \in DOMAIN todo'[s]
       PROVE  Follows(todo'[s][i].audio, f, h + (i - 1) * ChunkUnits)
  <2>0. Pushed(s, a, m, n, audio) BY <1>1
  <2>9. /\ (i - 1) * ChunkUnits \in Nat
        /\ (i - 1) * ChunkUnits + ChunkUnits <= Len(audio)
        /\ Len(todo'[s][i].audio) = ChunkUnits
        /\ IsPart(todo'[s][i].audio, audio, (i - 1) * ChunkUnits)
    <3>1. (i - 1) * ChunkUnits \in Nat BY <2>0, PushedChunks, Zenon
    <3>2. (i - 1) * ChunkUnits + ChunkUnits <= Len(audio) BY <2>0, PushedChunks, Zenon
    <3>3. Len(todo'[s][i].audio) = ChunkUnits BY <2>0, PushedChunks, Zenon
    <3>4. IsPart(todo'[s][i].audio, audio, (i - 1) * ChunkUnits)
      BY <2>0, PushedChunks, Zenon
    <3>. QED BY <3>1, <3>2, <3>3, <3>4
  <2> DEFINE k == (i - 1) * ChunkUnits
             c == todo'[s][i].audio
  <2>1. /\ k \in Nat /\ k + ChunkUnits <= Len(audio) /\ Len(c) = ChunkUnits
        /\ \A j \in 1..ChunkUnits : c[j] = audio[k + j]
    BY <2>9 DEF IsPart
  <2>2. c \in Seq(Nat)
    <3>1. todo'[s][i] \in Chunks BY <1>3
    <3>. QED BY <3>1 DEF Chunks
  <2>3. f \in Int /\ h \in Int BY <1>3, <1>5
  <2> HIDE DEF k, c, f, h
  <2>4. Follows(c, f, h + k) BY <1>9, <2>1, <2>2, <2>3, FollowsPart
  <2>. QED BY <2>4 DEF k, c
<1>12. Follows(buffer'[s], f, Units(s)' - Len(buffer'[s]))
  <2> DEFINE k == n * ChunkUnits
             c == buffer'[s]
  <2>1. Len(c) = l - k /\ \A j \in 1..Len(c) : c[j] = audio[k + j] BY <1>1, PushedBuffer
  <2>2. k \in Nat /\ k <= l BY <1>1, Zenon DEF Pushed
  <2>3. f \in Int /\ h \in Int /\ Units(s)' = h + l
    <3> DEFINE w == Units(s)'
    <3>0. Units(s)' \in Int
      <4>1. TypeInv' BY FrameType
      <4>2. next'[s] \in Int /\ first'[s] \in Int BY <4>1 DEF TypeInv
      <4>3. (next'[s] - first'[s]) * FrameUnits \in Int BY <4>2, Sizes
      <4>. QED BY <4>3 DEF Units
    <3>1. f \in Int /\ h \in Int /\ w \in Int /\ w - l = h BY <1>3, <1>5, <1>8, <1>10, <3>0
    <3> HIDE DEF w, h, f, l
    <3>2. w = h + l BY <1>3, <3>1
    <3>. QED BY <3>1, <3>2 DEF w
  <2>4. Len(c) \in Nat BY <1>3
  <2> HIDE DEF k, c, f, h, l
  <2>5. k + Len(c) <= Len(audio) BY <1>3, <2>1, <2>2, <2>4 DEF l
  <2>6. Follows(c, f, h + k) BY <1>3, <1>9, <2>1, <2>2, <2>3, <2>5, FollowsPart DEF c
  <2>7. Units(s)' - Len(c) = h + k BY <1>3, <2>1, <2>2, <2>3, <2>4
  <2>. QED BY <2>6, <2>7 DEF c
<1>13. /\ Follows(heard'[s], first'[s], 0) /\ Len(heard'[s]) = Units(s)' - Unsent(s)'
       /\ \A i \in DOMAIN todo'[s] :
             Follows(todo'[s][i].audio, first'[s], (Units(s)' - Unsent(s)') + (i - 1) * ChunkUnits)
  BY <1>2, <1>5, <1>10, <1>11
<1>14. rpc'[s] # "waiting" BY <1>2
<1>. QED BY <1>12, <1>13, <1>14, Zenon DEF AudioInvOf, Follows

LEMMA AudioEngine ==
  ASSUME TypeInv, FutureInv, ItemInv, Recognize \/ EngineRaises,
         NEW r \in Streams, AudioInvOf(r), future'[r] # "error"
  PROVE  AudioInvOf(r)'
<1>1. /\ UNCHANGED <<rpc, first, next, todo, buffer, ending, queue>> /\ batch' = <<>>
      /\ Len(batch) \in Nat /\ DOMAIN batch = 1..Len(batch)
  BY DEF Recognize, EngineRaises, assembler, TypeInv
<1>2. Held' = {queue[i] : i \in DOMAIN queue} BY <1>1 DEF Held
<1>3. CASE r \in StreamsOf(batch) /\ future[r] = "pending"
  <2>1. Recognize
    <3>1. ASSUME EngineRaises PROVE FALSE
      <4>1. future'[r] = "error" BY <1>3, <3>1 DEF EngineRaises, Settle
      <4>. QED BY <4>1
    <3>. QED BY <3>1
  <2>2. future'[r] = "result" /\ rpc[r] = "waiting"
    BY <1>3, <2>1 DEF Recognize, Settle, FutureInv
  <2> DEFINE x == CHOOSE y \in Items(Len(batch)) : y.stream = r
             h == Len(heard[r])
             sent == Units(r) - Unsent(r)
  <2>3. \E y \in Items(Len(batch)) : y.stream = r
    <3>1. PICK i \in DOMAIN batch : batch[i].stream = r BY <1>3 DEF StreamsOf
    <3>2. batch[i] \in Items(Len(batch)) BY <1>1, <3>1 DEF Items
    <3>. QED BY <3>1, <3>2
  <2>4. x \in Items(Len(batch)) /\ x.stream = r BY <2>3
  <2>5. heard'[r] = heard[r] \o x.audio BY <2>1, <2>2, <2>3 DEF Recognize, HeardAfter
  <2>6. x \in Held /\ x.audio \in Seq(Nat)
    <3>1. PICK i \in DOMAIN batch : x = batch[i] BY <1>1, <2>4 DEF Items
    <3>2. batch[i] \in QueueItems BY DEF TypeInv
    <3> HIDE DEF x
    <3>. QED BY <3>1, <3>2 DEF Held, QueueItems
  <2> HIDE DEF x
  <2>7. /\ Follows(heard[r], first[r], 0) /\ Follows(x.audio, first[r], h)
        /\ h + Len(x.audio) = sent
        /\ \A i \in DOMAIN todo[r] :
              Follows(todo[r][i].audio, first[r], sent + (i - 1) * ChunkUnits)
        /\ Follows(buffer[r], first[r], Units(r) - Len(buffer[r]))
    BY <2>2, <2>4, <2>6, Zenon DEF AudioInvOf
  <2>8. heard[r] \in Seq(Nat) /\ first[r] \in Int /\ h \in Nat /\ 0 \in Int /\ 0 + h = h
    BY AudioTypes
  <2>9. Follows(heard'[r], first[r], 0) /\ Len(heard'[r]) = sent
    <3>1. Follows(heard[r] \o x.audio, first[r], 0)
      BY <2>6, <2>7, <2>8, FollowsConcat
    <3>2. Len(heard[r] \o x.audio) = h + Len(x.audio) BY <2>6, <2>8, ConcatProperties
    <3>. QED BY <2>5, <2>7, <3>1, <3>2
  <2>10. \A y \in Held' : y.stream # r
    <3>1. r \notin StreamsOf(queue) BY <1>3 DEF ItemInv
    <3>. QED BY <1>2, <3>1 DEF StreamsOf
  <2>11. Units(r)' = Units(r) /\ Unsent(r)' = Unsent(r) BY <1>1 DEF Units, Unsent
  <2>. QED BY <1>1, <2>7, <2>9, <2>10, <2>11, ZenonT(40) DEF AudioInvOf, Follows
<1>4. CASE ~(r \in StreamsOf(batch) /\ future[r] = "pending")
  <2>1. future'[r] = future[r] BY <1>4 DEF Recognize, EngineRaises, Settle
  <2>2. heard'[r] = heard[r]
    <3>1. ASSUME NEW n \in 0..Len(batch), rpc[r] = "waiting",
                 NEW x \in Items(n), x.stream = r
          PROVE  FALSE
      <4>1. PICK i \in 1..n : x = batch[i] BY DEF Items
      <4>2. i \in DOMAIN batch BY <1>1
      <4>3. r \in StreamsOf(batch) BY <3>1, <4>1, <4>2 DEF StreamsOf
      <4>4. future[r] \in {"pending", "cancelled"} BY <4>3, ItemStreams
      <4>5. future[r] # "cancelled" BY <3>1 DEF FutureInv
      <4>. QED BY <1>4, <4>3, <4>4, <4>5
    <3>2. ASSUME NEW n \in 0..Len(batch) PROVE HeardAfter(n)[r] = heard[r]
      BY <3>1 DEF HeardAfter
    <3>3. Len(batch) \in 0..Len(batch) /\ \A n \in DOMAIN batch : n - 1 \in 0..Len(batch)
      BY <1>1
    <3>. QED BY <3>2, <3>3 DEF Recognize, EngineRaises
  <2>3. \A x \in Held' : x.stream = r => x \in Held BY <1>2 DEF Held
  <2>. QED BY <1>1, <2>1, <2>2, <2>3, AudioStays
<1>. QED BY <1>3, <1>4

(* A stream whose chunk failed submits no other.                           *)
LEMMA ErrorStays ==
  ASSUME TypeInv, FutureInv, [Next]_vars, NEW r \in Streams, future[r] = "error"
  PROVE  future'[r] = "error"
<1>1. ASSUME NEW s \in Streams,
             Reject(s) \/ SubmitFull(s) \/ Cancel(s) \/ (Awake(s) /\ future[s] = "error")
      PROVE  future'[r] = "error"
  <2>1. /\ \A x \in Streams : x # s => future'[x] = future[x]
        /\ future'[s] = future[s] \/ future[s] = "pending"
    BY <1>1, CutMeans
  <2>. QED BY <2>1
<1>2. ASSUME NEW s \in Streams, Submit(s) PROVE future'[r] = "error"
  <2>1. r # s BY <1>2 DEF Submit, FutureInv
  <2>. QED BY <1>2, <2>1 DEF Submit, Enqueue, TypeInv, TypeOK
<1>3. ASSUME NEW s \in Streams, Awake(s), ~(future[s] = "error") PROVE future'[r] = "error"
  BY <1>3, AwakeMeans DEF scheduler
<1>4. ASSUME NEW s \in Streams, \/ Open(s) \/ EndFrame(s) \/ Acknowledge(s)
                                \/ \E q \in 0..MaxSequence[s] : Frame(s, q)
      PROVE  future'[r] = "error"
  BY <1>4 DEF Open, EndFrame, Acknowledge, Frame, scheduler
<1>5. CASE Tick \/ Recognize \/ EngineRaises \/ Stop \/ CloseScheduler \/ UNCHANGED vars
  BY <1>5 DEF Tick, Recognize, EngineRaises, Settle, Stop, CloseScheduler, vars, scheduler
<1>. QED BY <1>1, <1>2, <1>3, <1>4, <1>5 DEF Next, Handler

LEMMA AudioStep ==
  ASSUME HandlerInv, AudioInv, [Next]_vars
  PROVE  AudioInv'
<1>0. TypeInv /\ FutureInv /\ TodoInv /\ ItemInv BY DEF HandlerInv
<1> SUFFICES ASSUME NEW r \in Streams, future'[r] # "error" PROVE AudioInvOf(r)'
  BY Zenon DEF AudioInv, AudioInvOf
<1>1. AudioInvOf(r)
  <2>1. future[r] # "error" BY <1>0, ErrorStays
  <2>. QED BY <2>1 DEF AudioInv
<1>2. ASSUME \A x \in Held' : x.stream = r => x \in Held,
             heard'[r] = heard[r], first'[r] = first[r], next'[r] = next[r],
             todo'[r] = todo[r], buffer'[r] = buffer[r], ending'[r] = ending[r],
             \/ rpc'[r] = rpc[r] /\ future'[r] = future[r]
             \/ rpc'[r] # "waiting" /\ (rpc[r] # "waiting" \/ future[r] = "result")
      PROVE  AudioInvOf(r)'
  BY <1>0, <1>1, <1>2, AudioStays
<1>3. ASSUME UNCHANGED <<queue, batch>> PROVE \A x \in Held' : x.stream = r => x \in Held
  BY <1>3 DEF Held
<1>4. ASSUME NEW s \in Streams, Open(s) \/ Acknowledge(s) PROVE AudioInvOf(r)'
  <2>1. /\ UNCHANGED <<queue, batch, future, heard, first, next, todo, buffer, ending>>
        /\ rpc[s] # "waiting" /\ rpc'[s] # "waiting"
        /\ \A x \in Streams : x # s => rpc'[x] = rpc[x]
    BY <1>0, <1>4 DEF Open, Acknowledge, Goto, scheduler, assembler, engine, TypeInv, TypeOK
  <2>. QED BY <1>2, <1>3, <2>1
<1>5. ASSUME NEW s \in Streams, Awake(s), ~(future[s] = "error") PROVE AudioInvOf(r)'
  <2>1. /\ UNCHANGED <<queue, batch, future, heard, first, next, todo, buffer, ending>>
        /\ rpc'[s] # "waiting" /\ future[s] = "result"
        /\ \A x \in Streams : x # s => rpc'[x] = rpc[x]
    BY <1>0, <1>5, AwakeMeans, SMTT(30) DEF Goto, scheduler, assembler, engine, TypeInv, TypeOK
  <2>. QED BY <1>2, <1>3, <2>1
<1>6. ASSUME NEW s \in Streams,
             Reject(s) \/ SubmitFull(s) \/ Cancel(s) \/ (Awake(s) /\ future[s] = "error")
      PROVE  AudioInvOf(r)'
  <2>1. /\ UNCHANGED <<queue, batch>>
        /\ \A x \in Streams : x # s =>
              /\ rpc'[x] = rpc[x] /\ future'[x] = future[x] /\ heard'[x] = heard[x]
              /\ first'[x] = first[x] /\ next'[x] = next[x] /\ buffer'[x] = buffer[x]
              /\ todo'[x] = todo[x] /\ ending'[x] = ending[x]
        /\ rpc'[s] = "cut" /\ next'[s] = -1 /\ buffer'[s] = <<>>
        /\ todo'[s] = <<>> /\ ending'[s] = FALSE /\ heard'[s] = <<>>
    BY <1>0, <1>6, CutMeans
  <2>2. CASE r = s BY <2>1, <2>2, AudioCut
  <2>3. CASE r # s BY <1>2, <1>3, <2>1, <2>3
  <2>. QED BY <2>2, <2>3
<1>7. ASSUME NEW s \in Streams, EndFrame(s) PROVE AudioInvOf(r)'
  <2>1. CASE r = s BY <1>0, <1>1, <1>7, <2>1, AudioEnd
  <2>2. CASE r # s
    <3>1. /\ UNCHANGED <<queue, batch, future, heard, first, next>>
          /\ rpc'[r] = rpc[r] /\ todo'[r] = todo[r] /\ buffer'[r] = buffer[r]
          /\ ending'[r] = ending[r]
      BY <1>0, <1>7, <2>2 DEF EndFrame, Goto, scheduler, engine, TypeInv, TypeOK
    <3>. QED BY <1>2, <1>3, <3>1
  <2>. QED BY <2>1, <2>2
<1>8. ASSUME NEW s \in Streams, NEW q \in 0..MaxSequence[s], Frame(s, q)
      PROVE  AudioInvOf(r)'
  <2>1. CASE r = s BY <1>0, <1>1, <1>8, <2>1, AudioFrame
  <2>2. CASE r # s
    <3>1. /\ UNCHANGED <<queue, batch, future, heard, ending>>
          /\ rpc'[r] = rpc[r] /\ todo'[r] = todo[r] /\ buffer'[r] = buffer[r]
          /\ first'[r] = first[r] /\ next'[r] = next[r]
      BY <1>0, <1>8, <2>2 DEF Frame, Push, Goto, scheduler, engine, TypeInv, TypeOK
    <3>. QED BY <1>2, <1>3, <3>1
  <2>. QED BY <2>1, <2>2
<1>9. ASSUME NEW s \in Streams, Submit(s) PROVE AudioInvOf(r)'
  <2>1. CASE r = s BY <1>0, <1>1, <1>9, <2>1, AudioSubmit
  <2>2. CASE r # s
    <3>1. /\ UNCHANGED <<batch, heard, first, next, buffer, ending>>
          /\ rpc'[r] = rpc[r] /\ todo'[r] = todo[r] /\ future'[r] = future[r]
      BY <1>0, <1>9, <2>2 DEF Submit, Enqueue, Goto, engine, TypeInv, TypeOK
    <3>2. PICK y \in QueueItems :
            /\ y.stream = s /\ DOMAIN queue' = 1..Len(queue) + 1
            /\ \A i \in 1..Len(queue) : queue'[i] = queue[i]
            /\ queue'[Len(queue) + 1] = y /\ Len(queue) \in Nat
      BY <1>0, <1>9, SubmitMeans
    <3>3. DOMAIN queue = 1..Len(queue) BY <1>0 DEF TypeInv
    <3>4. ASSUME NEW i \in DOMAIN queue', queue'[i].stream = r
          PROVE  queue'[i] \in {queue[j] : j \in DOMAIN queue}
      BY <2>2, <3>2, <3>3, <3>4
    <3>5. \A x \in Held' : x.stream = r => x \in Held BY <3>1, <3>4 DEF Held
    <3>. QED BY <1>2, <3>1, <3>5
  <2>. QED BY <2>1, <2>2
<1>10. CASE Tick
  <2>1. UNCHANGED <<rpc, future, heard, first, next, todo, buffer, ending>>
    BY <1>10 DEF Tick, assembler, engine
  <2>2. /\ batch' = Chosen(queue, Taken) /\ queue' = Chosen(queue, Rest)
        /\ Taken \in SUBSET (1..Len(queue)) /\ Rest \in SUBSET (1..Len(queue))
        /\ DOMAIN queue = 1..Len(queue) /\ queue \in Seq(QueueItems)
        /\ DOMAIN batch' = 1..Len(batch') /\ DOMAIN queue' = 1..Len(queue')
    BY <1>0, <1>10, TickMeans, LenProperties DEF TypeInv
  <2>3. ASSUME NEW I \in SUBSET (1..Len(queue)), NEW c, c = Chosen(queue, I)
        PROVE  \A n \in 1..Len(c) : c[n] \in {queue[i] : i \in DOMAIN queue}
    <3>1. \A n \in 1..Len(c) : \E i \in I : c[n] = queue[i] BY <2>2, <2>3, ChosenItems
    <3>. QED BY <2>2, <3>1
  <2>4. \A n \in 1..Len(batch') : batch'[n] \in {queue[i] : i \in DOMAIN queue}
    BY <2>2, <2>3
  <2>5. \A n \in 1..Len(queue') : queue'[n] \in {queue[i] : i \in DOMAIN queue}
    BY <2>2, <2>3
  <2>6. \A x \in Held' : x.stream = r => x \in Held BY <2>2, <2>4, <2>5 DEF Held
  <2>. QED BY <1>2, <2>1, <2>6
<1>11. CASE Recognize \/ EngineRaises BY <1>0, <1>1, <1>11, AudioEngine
<1>12. CASE CloseScheduler
  <2>1. /\ UNCHANGED <<rpc, heard, first, next, todo, buffer, ending>>
        /\ queue' = <<>> /\ batch' = <<>>
    BY <1>12 DEF CloseScheduler, assembler, engine
  <2>2. \A x \in Held' : x.stream = r => x \in Held BY <2>1 DEF Held
  <2>3. rpc[r] # "waiting" BY <1>12 DEF CloseScheduler, Active
  <2>. QED BY <1>2, <2>1, <2>2, <2>3
<1>13. CASE Stop \/ UNCHANGED vars
  <2>1. UNCHANGED <<queue, batch, rpc, future, heard, first, next, todo, buffer, ending>>
    BY <1>13 DEF Stop, vars, scheduler, assembler, engine
  <2>. QED BY <1>2, <1>3, <2>1
<1>. QED
  BY <1>4, <1>5, <1>6, <1>7, <1>8, <1>9, <1>10, <1>11, <1>12, <1>13 DEF Next, Handler

(* What a session has been heard of and what waits in its buffer is the    *)
(* audio of its frames, in order and each once, whatever came late, was    *)
(* batched with others, cancelled or answered with an error; and a stream  *)
(* that ended has been heard entirely.                                     *)
THEOREM AudioIsHeardInOrder == Spec => []HeardInOrder
<1>1. Init => AudioInv
  <2> SUFFICES ASSUME Init, NEW s \in Streams PROVE AudioInvOf(s)
    BY DEF AudioInv
  <2>1. /\ heard[s] = <<>> /\ buffer[s] = <<>> /\ todo[s] = <<>> /\ Held = {}
        /\ ending[s] = FALSE /\ next[s] = -1
    BY DEF Init, Held
  <2>2. Units(s) = 0 /\ Unsent(s) = 0 BY <2>1, Sizes DEF Units, Unsent
  <2>. QED BY <2>1, <2>2 DEF AudioInvOf, Follows
<1>2. HandlerInv /\ AudioInv /\ [Next]_vars => AudioInv' BY AudioStep
<1>3. HandlerInv /\ AudioInv => HeardInOrder
  <2> SUFFICES ASSUME HandlerInv, AudioInv, NEW s \in Streams,
                      rpc[s] \in {"reading", "ended"}, next[s] # -1
               PROVE  /\ heard[s] \o buffer[s] = Audio(first[s], next[s] - first[s])
                      /\ rpc[s] = "ended" => buffer[s] = <<>>
    BY DEF HeardInOrder
  <2> DEFINE h == Len(heard[s])
             b == Len(buffer[s])
             u == Units(s)
             f == first[s]
             d == next[s] - first[s]
  <2>0. TypeInv /\ FutureInv /\ TodoInv BY DEF HandlerInv
  <2>1. AudioInvOf(s) BY <2>0 DEF AudioInv, FutureInv
  <2>2. /\ h \in Nat /\ b \in Nat /\ u \in Int
        /\ heard[s] \in Seq(Nat) /\ buffer[s] \in Seq(Nat)
    BY <2>0, AudioTypes
  <2>3. f \in Nat /\ d \in Nat /\ u = d * FrameUnits
    <3>1. first[s] \in 0..next[s] /\ next[s] \in Int BY <2>0 DEF TypeInv
    <3>. QED BY <3>1 DEF Units
  <2>4. todo[s] = <<>> /\ (rpc[s] = "ended" => buffer[s] = <<>>)
    BY <2>0 DEF TodoInv, TodoInvOf
  <2>5. Unsent(s) = b
    <3>1. Unsent(s) = b + IF ending[s] THEN 0 ELSE Len(todo[s]) * ChunkUnits
      BY <2>4, Zenon DEF Unsent
    <3>2. Len(todo[s]) = 0 BY <2>4
    <3>3. 0 * ChunkUnits = 0 BY Sizes
    <3>. QED BY <2>2, <3>1, <3>2, <3>3
  <2>6. /\ Follows(heard[s], f, 0) /\ Follows(buffer[s], f, u - b) /\ h = u - b
    <3>1. rpc[s] # "waiting" OBVIOUS
    <3>. QED BY <2>1, <2>5, <3>1, Zenon DEF AudioInvOf
  <2>7. 0 + h = h /\ h + b = u
    <3> HIDE DEF h, u, b
    <3>. QED BY <2>2, <2>6
  <2> DEFINE q == heard[s] \o buffer[s]
  <2>8. q \in Seq(Nat) /\ Len(q) = d * FrameUnits
    <3>1. q \in Seq(Nat) /\ Len(q) = h + b BY <2>2, ConcatProperties
    <3>. QED BY <2>3, <2>7, <3>1
  <2>9. Follows(q, f, 0)
    <3>1. f \in Int BY <2>3
    <3>2. Follows(buffer[s], f, 0 + Len(heard[s])) BY <2>6, <2>7
    <3> HIDE DEF f
    <3>. QED BY <2>2, <2>6, <3>1, <3>2, FollowsConcat
  <2> HIDE DEF q, f, d
  <2>10. q = Audio(f, d) BY <2>3, <2>8, <2>9, FollowsWhole
  <2>. QED BY <2>4, <2>10 DEF q, f, d
<1>. QED BY <1>1, <1>2, <1>3, Handlers, PTL DEF Spec

-----------------------------------------------------------------------------
(* The scheduler and FairBatches.                                          *)

(* The lines of a queue, given the futures.                                *)
Names(q) == [i \in DOMAIN q |-> q[i].stream]
Waits(q, f, k) == {i \in DOMAIN q : Key[q[i].stream] = k /\ f[q[i].stream] # "cancelled"}
Line(q, f, k) == Chosen(Names(q), Waits(q, f, k))
Lines(q, f) == [k \in Keys |-> Line(q, f, k)]

LEMMA NamesType ==
  ASSUME NEW q \in Seq(QueueItems), NEW f, NEW k
  PROVE  /\ Names(q) \in Seq(Streams) /\ Len(Names(q)) = Len(q)
         /\ \A i \in 1..Len(q) : Names(q)[i] = q[i].stream /\ q[i].stream \in Streams
         /\ Waits(q, f, k) \in SUBSET (1..Len(q))
         /\ Waits(q, f, k) \in SUBSET (1..Len(Names(q)))
<1>1. DOMAIN q = 1..Len(q) /\ Len(q) \in Nat BY LenProperties
<1>2. \A i \in 1..Len(q) : q[i].stream \in Streams
  <2>1. ASSUME NEW i \in 1..Len(q) PROVE q[i].stream \in Streams
    <3>1. q[i] \in QueueItems OBVIOUS
    <3>. QED BY <3>1 DEF QueueItems
  <2>. QED BY <2>1
<1>3. Names(q) \in Seq(Streams) /\ Len(Names(q)) = Len(q)
  BY <1>1, <1>2 DEF Names
<1>4. \A i \in 1..Len(q) : Names(q)[i] = q[i].stream BY <1>1 DEF Names
<1>5. Waits(q, f, k) \in SUBSET (1..Len(q)) BY <1>1 DEF Waits
<1>. QED BY <1>2, <1>3, <1>4, <1>5

(* The streams of a line.                                                  *)
LEMMA LineItems ==
  ASSUME NEW q \in Seq(QueueItems), NEW f, NEW k
  PROVE  /\ Line(q, f, k) \in Seq(Streams)
         /\ \A n \in 1..Len(Line(q, f, k)) :
               \E i \in Waits(q, f, k) : Line(q, f, k)[n] = q[i].stream
         /\ \A i \in Waits(q, f, k) :
               \E n \in 1..Len(Line(q, f, k)) : Line(q, f, k)[n] = q[i].stream
<1> DEFINE s == Names(q)
           I == Waits(q, f, k)
<1>1. s \in Seq(Streams) /\ I \in SUBSET (1..Len(s)) BY NamesType
<1>2. \A i \in I : s[i] = q[i].stream
  <2>1. \A i \in 1..Len(q) : s[i] = q[i].stream BY NamesType
  <2>2. I \in SUBSET (1..Len(q)) BY NamesType
  <2>. QED BY <2>1, <2>2
<1> HIDE DEF s, I
<1>3. /\ Chosen(s, I) \in Seq(Streams)
      /\ \A n \in 1..Len(Chosen(s, I)) : \E i \in I : Chosen(s, I)[n] = s[i]
      /\ \A i \in I : \E n \in 1..Len(Chosen(s, I)) : Chosen(s, I)[n] = s[i]
  BY <1>1, ChosenProperties, ChosenItems
<1> DEFINE c == Chosen(s, I)
<1>4. /\ c \in Seq(Streams)
      /\ \A n \in 1..Len(c) : \E i \in I : c[n] = q[i].stream
      /\ \A i \in I : \E n \in 1..Len(c) : c[n] = q[i].stream
  BY <1>2, <1>3
<1> HIDE DEF c
<1>5. Line(q, f, k) = c BY DEF Line, c, s, I
<1>. QED BY <1>4, <1>5 DEF I

(* Futures that are not cancelled count the same.                          *)
LEMMA LinesStay ==
  ASSUME NEW q, NEW f, NEW g,
         \A s \in StreamsOf(q) : g[s] = "cancelled" <=> f[s] = "cancelled"
  PROVE  Lines(q, g) = Lines(q, f)
<1>1. ASSUME NEW k PROVE Waits(q, g, k) = Waits(q, f, k)
  BY DEF Waits, StreamsOf
<1>. QED BY <1>1 DEF Lines, Line

(* The steps of FairBatches, of lines l and batches b.                     *)
Joins(l, m, k, s) ==
  (\A i \in DOMAIN l[k] : l[k][i] # s) /\ m = [l EXCEPT ![k] = Append(@, s)]
Leaves(l, m, k, s) ==
  /\ \E i \in DOMAIN l[k] : l[k][i] = s
  /\ m = [l EXCEPT ![k] = Chosen(@, {i \in DOMAIN @ : @[i] # s})]
FairStep(l, b, m, c) ==
  \/ \E k \in Keys, s \in Streams : c = b /\ (Joins(l, m, k, s) \/ Leaves(l, m, k, s))
  \/ \E K \in SUBSET Keys :
        /\ b = {} /\ K # {} /\ Cardinality(K) <= MaxBatch
        /\ \A k \in K : l[k] # <<>>
        /\ c = {Head(l[k]) : k \in K}
        /\ m = [k \in Keys |-> IF k \in K THEN Tail(l[k]) ELSE l[k]]
  \/ b # {} /\ c = {} /\ m = l
  \/ m = [k \in Keys |-> <<>>] /\ c = {}

(* A chunk that is submitted is the last of its line.                      *)
Submits(q, f, p, g, x) ==
  /\ p = Append(q, x) /\ x.stream \notin StreamsOf(q) /\ g[x.stream] # "cancelled"
  /\ \A s \in StreamsOf(q) : g[s] = f[s]

LEMMA LinesSubmit ==
  ASSUME NEW q \in Seq(QueueItems), NEW f, NEW x \in QueueItems, NEW p, NEW g,
         Submits(q, f, p, g, x)
  PROVE  Joins(Lines(q, f), Lines(p, g), Key[x.stream], x.stream)
<1> DEFINE s == x.stream
           m == Len(q)
<1>0. /\ p = Append(q, x) /\ s \notin StreamsOf(q) /\ g[s] # "cancelled"
      /\ \A r \in StreamsOf(q) : g[r] = f[r]
  BY DEF Submits
<1>1. /\ s \in Streams /\ Key[s] \in Keys /\ m \in Nat /\ DOMAIN q = 1..m
      /\ p \in Seq(QueueItems) /\ DOMAIN p = 1..m + 1
      /\ \A i \in 1..m : p[i] = q[i]
      /\ p[m + 1] = x
  BY <1>0, LenProperties DEF QueueItems
<1> HIDE DEF m
<1>2. Names(p) = Append(Names(q), s)
  <2> DEFINE u == Names(q)
             v == Names(p)
             a == Append(u, s)
  <2>1. /\ u \in Seq(Streams) /\ Len(u) = m
        /\ \A i \in 1..m : u[i] = q[i].stream
    BY NamesType DEF m
  <2>2. /\ v \in Seq(Streams) /\ Len(v) = m + 1
        /\ \A i \in 1..m + 1 : v[i] = p[i].stream
    <3>1. Len(p) = m + 1 BY <1>1
    <3>. QED BY <1>1, <3>1, NamesType
  <2>3. /\ a \in Seq(Streams) /\ Len(a) = m + 1
        /\ \A i \in 1..m : a[i] = u[i]
        /\ a[m + 1] = s
    <3> HIDE DEF u, s
    <3>. QED BY <1>1, <2>1, AppendProperties
  <2> HIDE DEF u, v, a
  <2>4. \A i \in 1..m + 1 : v[i] = a[i]
    <3>1. \A i \in 1..m + 1 : i \in 1..m \/ i = m + 1 BY <1>1
    <3>2. ASSUME NEW i \in 1..m PROVE v[i] = a[i]
      <4>1. i \in 1..m + 1 BY <1>1
      <4>2. v[i] = p[i].stream BY <2>2, <4>1
      <4>3. p[i] = q[i] BY <1>1
      <4>4. a[i] = q[i].stream BY <2>1, <2>3
      <4>. QED BY <4>2, <4>3, <4>4
    <3>3. v[m + 1] = a[m + 1] BY <1>1, <2>2, <2>3
    <3>. QED BY <3>1, <3>2, <3>3
  <2>5. v = a BY <1>1, <2>2, <2>3, <2>4, SeqEqual
  <2>. QED BY <2>5 DEF u, v, a
<1>3. ASSUME NEW k \in Keys
      PROVE  Line(p, g, k) = IF k = Key[s] THEN Append(Line(q, f, k), s) ELSE Line(q, f, k)
  <2> DEFINE I == Waits(q, f, k)
             L == Waits(p, g, k)
             u == Names(q)
  <2>1. u \in Seq(Streams) /\ Len(u) = m /\ I \in SUBSET (1..Len(u))
    BY NamesType DEF m
  <2>2. \A i \in 1..m : g[q[i].stream] = f[q[i].stream] BY <1>0, <1>1 DEF StreamsOf
  <2>3. \A i \in 1..m : i \in L <=> i \in I BY <1>1, <2>2 DEF Waits
  <2>4. m + 1 \in L <=> k = Key[s] BY <1>0, <1>1 DEF Waits
  <2>5. L \in SUBSET (1..m + 1) BY <1>1 DEF Waits
  <2> HIDE DEF I, L, u, s
  <2>6. OneMore(I, L, Len(u)) BY <2>1, <2>3, <2>5 DEF OneMore
  <2>7. Chosen(Add(u, s), L) =
           IF k = Key[s] THEN Add(Chosen(u, I), s) ELSE Chosen(u, I)
    <3>1. s \in Streams BY <1>1
    <3>2. Chosen(Add(u, s), L) =
             IF Len(u) + 1 \in L THEN Add(Chosen(u, I), s) ELSE Chosen(u, I)
      BY <2>1, <2>6, <3>1, ChosenAppend
    <3>. QED BY <2>1, <2>4, <3>2
  <2>8. Line(p, g, k) = Chosen(Append(u, s), L) /\ Line(q, f, k) = Chosen(u, I)
    BY <1>2 DEF Line, L, I, u
  <2>. QED BY <2>7, <2>8 DEF Add
<1>4. Lines(p, g) = [Lines(q, f) EXCEPT ![Key[s]] = Append(@, s)]
  BY <1>1, <1>3 DEF Lines
<1>5. ASSUME NEW n \in DOMAIN Line(q, f, Key[s]) PROVE Line(q, f, Key[s])[n] # s
  <2>1. Line(q, f, Key[s]) \in Seq(Streams) BY LineItems
  <2>2. n \in 1..Len(Line(q, f, Key[s])) BY <2>1
  <2>3. PICK i \in Waits(q, f, Key[s]) : Line(q, f, Key[s])[n] = q[i].stream
    BY <2>2, LineItems
  <2>4. q[i].stream \in StreamsOf(q) BY DEF Waits, StreamsOf
  <2>. QED BY <1>0, <2>3, <2>4
<1>6. Lines(q, f)[Key[s]] = Line(q, f, Key[s]) BY <1>1 DEF Lines
<1>. QED BY <1>4, <1>5, <1>6 DEF Joins

(* A chunk that is cancelled leaves its line.                              *)
Cancels(q, f, g, s) ==
  /\ s \in StreamsOf(q) /\ f[s] # "cancelled" /\ g[s] = "cancelled"
  /\ \A r \in Streams : r # s => g[r] = f[r]

LEMMA LinesCancel ==
  ASSUME NEW q \in Seq(QueueItems), NEW f, NEW g, NEW s \in Streams, Cancels(q, f, g, s)
  PROVE  Leaves(Lines(q, f), Lines(q, g), Key[s], s)
<1>0. /\ s \in StreamsOf(q) /\ f[s] # "cancelled" /\ g[s] = "cancelled"
      /\ \A r \in Streams : r # s => g[r] = f[r]
  BY DEF Cancels
<1>1. /\ DOMAIN q = 1..Len(q) /\ Len(q) \in Nat /\ Key[s] \in Keys
      /\ \A i \in 1..Len(q) : q[i].stream \in Streams
  BY NamesType, LenProperties
<1>2. \A k \in Keys : Waits(q, g, k) = {i \in Waits(q, f, k) : q[i].stream # s}
  BY <1>0, <1>1 DEF Waits
<1>3. ASSUME NEW k \in Keys, k # Key[s] PROVE Line(q, g, k) = Line(q, f, k)
  <2>1. \A i \in Waits(q, f, k) : q[i].stream # s BY <1>3 DEF Waits
  <2>2. Waits(q, g, k) = Waits(q, f, k) BY <1>2, <2>1
  <2>. QED BY <2>2 DEF Line
<1> DEFINE k == Key[s]
           l == Line(q, f, k)
           J == {n \in 1..Len(l) : l[n] # s}
           I == Waits(q, f, k)
           u == Names(q)
<1>4. Line(q, g, k) = Chosen(l, J)
  <2>1. /\ u \in Seq(Streams) /\ I \in SUBSET (1..Len(u))
        /\ \A i \in I : u[i] = q[i].stream
    <3>1. \A i \in 1..Len(q) : u[i] = q[i].stream BY NamesType
    <3>2. I \in SUBSET (1..Len(q)) BY NamesType
    <3>. QED BY <3>1, <3>2, NamesType
  <2>2. l = Chosen(u, I) BY DEF Line
  <2>3. Waits(q, g, k) = {i \in I : q[i].stream # s} BY <1>1, <1>2
  <2> HIDE DEF u, I, l
  <2>4. /\ l \in Seq(Streams) /\ Len(l) = Cardinality(I)
        /\ Ascending(I) \in Enumerations(Cardinality(I), I)
        /\ \A n \in 1..Cardinality(I) : l[n] = u[Ascending(I)[n]]
    BY <2>1, <2>2, ChosenProperties
  <2> DEFINE K == {Ascending(I)[j] : j \in J}
  <2>5. K = {i \in I : q[i].stream # s}
    <3>1. ASSUME NEW j \in J PROVE Ascending(I)[j] \in I /\ q[Ascending(I)[j]].stream # s
      <4>1. j \in 1..Cardinality(I) BY <2>4
      <4>2. Ascending(I)[j] \in I BY <2>4, <4>1 DEF Enumerations
      <4>3. l[j] = u[Ascending(I)[j]] BY <2>4, <4>1
      <4>. QED BY <2>1, <4>2, <4>3
    <3>2. ASSUME NEW i \in I, q[i].stream # s PROVE i \in K
      <4>1. PICK n \in 1..Cardinality(I) : Ascending(I)[n] = i BY <2>4 DEF Enumerations
      <4>2. l[n] = q[i].stream BY <2>1, <2>4, <4>1
      <4>3. n \in J BY <2>4, <3>2, <4>1, <4>2
      <4>. QED BY <4>1, <4>3
    <3> HIDE DEF J
    <3>. QED BY <3>1, <3>2
  <2>6. J \in SUBSET (1..Len(l)) OBVIOUS
  <2> HIDE DEF J
  <2>7. Chosen(Chosen(u, I), J) = Chosen(u, K)
    <3>1. InTwoSteps(u, I, J, K) BY <2>1, <2>2, <2>6 DEF InTwoSteps
    <3> HIDE DEF K
    <3>. QED BY <2>1, <3>1, ChosenChosen
  <2> HIDE DEF K
  <2>8. Line(q, g, k) = Chosen(u, K) BY <2>3, <2>5 DEF Line, u
  <2>. QED BY <2>2, <2>7, <2>8
<1>5. l \in Seq(Streams) /\ DOMAIN l = 1..Len(l) BY LineItems, LenProperties
<1>6. \E n \in 1..Len(l) : l[n] = s
  <2>1. PICK i \in 1..Len(q) : q[i].stream = s BY <1>0, <1>1 DEF StreamsOf
  <2>2. i \in I BY <1>0, <1>1, <2>1 DEF Waits
  <2>3. ASSUME NEW y, NEW x \in Waits(q, f, y)
        PROVE  \E n \in 1..Len(Line(q, f, y)) : Line(q, f, y)[n] = q[x].stream
    BY LineItems
  <2>. QED BY <2>1, <2>2, <2>3, Zenon
<1> HIDE DEF l, I, u
<1>7. /\ Lines(q, f)[k] = l /\ Lines(q, f) = [x \in Keys |-> Line(q, f, x)]
      /\ Lines(q, g) = [x \in Keys |-> Line(q, g, x)]
  BY <1>1 DEF Lines, l
<1>8. J = {n \in DOMAIN l : l[n] # s} BY <1>5
<1> HIDE DEF J, k
<1>9. \A x \in Keys : Line(q, g, x) = IF x = k THEN Chosen(l, J) ELSE Line(q, f, x)
  BY <1>3, <1>4 DEF k
<1>10. Lines(q, g) = [Lines(q, f) EXCEPT ![k] = Chosen(l, J)]
  BY <1>1, <1>7, <1>9 DEF k
<1>. QED BY <1>5, <1>6, <1>7, <1>8, <1>10 DEF k, Leaves

(* A batch takes the first chunk of some lines; the others keep theirs.    *)
LEMMA LinesTick ==
  ASSUME HandlerInv, Tick
  PROVE  \E K \in SUBSET Keys :
            /\ Cardinality(K) <= MaxBatch
            /\ \A k \in K : Lines(queue, future)[k] # <<>>
            /\ StreamsOf(batch') = {Head(Lines(queue, future)[k]) : k \in K}
            /\ Lines(queue', future') =
                  [k \in Keys |-> IF k \in K THEN Tail(Lines(queue, future)[k])
                                             ELSE Lines(queue, future)[k]]
<1>0. TypeInv /\ ItemInv BY DEF HandlerInv
<1>1. /\ DOMAIN queue = 1..Len(queue) /\ future' = future
      /\ Taken \in SUBSET (1..Len(queue)) /\ Rest \in SUBSET (1..Len(queue))
      /\ batch' = Chosen(queue, Taken) /\ queue' = Chosen(queue, Rest)
      /\ queue' \in Seq(QueueItems) /\ queue \in Seq(QueueItems)
      /\ Cardinality(Taken) <= MaxBatch /\ Cardinality(Taken) \in Nat
  BY <1>0, TickMeans DEF Tick, TypeInv
<1>2. /\ Distinct(queue) /\ Unsettled(queue) BY <1>0 DEF ItemInv
<1>3. StreamsOf(batch') = {queue[i].stream : i \in Taken} BY <1>1, <1>2, ChosenItemsKept
<1> DEFINE u == Names(queue)
           W(k) == Waits(queue, future, k)
           L(k) == Line(queue, future, k)
           K == {KeyOf(queue[i]) : i \in Taken}
<1>4. /\ u \in Seq(Streams) /\ Len(u) = Len(queue)
      /\ \A i \in 1..Len(queue) : u[i] = queue[i].stream /\ queue[i].stream \in Streams
  BY <1>1, NamesType
<1>5. ASSUME NEW k PROVE W(k) \in SUBSET (1..Len(u)) BY <1>1, NamesType
<1>6. ASSUME NEW k PROVE Line(queue', future', k) = Chosen(u, W(k) \cap Rest)
  <2> DEFINE v == Names(queue')
             V == Waits(queue', future', k)
  <2>1. v \in Seq(Streams) /\ Len(v) = Len(queue') BY <1>1, NamesType
  <2>2. v = Chosen(u, Rest)
    <3>1. /\ Chosen(u, Rest) \in Seq(Streams) /\ Len(Chosen(u, Rest)) = Cardinality(Rest)
          /\ \A n \in 1..Cardinality(Rest) : Chosen(u, Rest)[n] = u[Ascending(Rest)[n]]
      BY <1>1, <1>4, ChosenProperties
    <3>2. /\ Len(queue') = Cardinality(Rest)
          /\ \A n \in 1..Cardinality(Rest) : queue'[n] = queue[Ascending(Rest)[n]]
          /\ \A n \in 1..Cardinality(Rest) : Ascending(Rest)[n] \in Rest
      <4> DEFINE R == Rest
      <4>0. R \in SUBSET (1..Len(queue)) /\ queue' = Chosen(queue, R) BY <1>1
      <4> HIDE DEF R
      <4>1. /\ Len(Chosen(queue, R)) = Cardinality(R)
            /\ Ascending(R) \in Enumerations(Cardinality(R), R)
            /\ \A n \in 1..Cardinality(R) : Chosen(queue, R)[n] = queue[Ascending(R)[n]]
        BY <1>1, <4>0, ChosenProperties
      <4>2. \A n \in 1..Cardinality(R) : Ascending(R)[n] \in R BY <4>1 DEF Enumerations
      <4>. QED BY <4>0, <4>1, <4>2 DEF R
    <3>3. \A n \in 1..Len(queue') : v[n] = queue'[n].stream BY <1>1, NamesType
    <3> DEFINE w == Chosen(u, Rest)
    <3> HIDE DEF v, w, u
    <3>4. ASSUME NEW n \in 1..Cardinality(Rest) PROVE v[n] = w[n]
      <4>1. Ascending(Rest)[n] \in 1..Len(queue) BY <1>1, <3>2
      <4>. QED BY <1>4, <3>1, <3>2, <3>3, <4>1 DEF w
    <3>5. v = w BY <2>1, <3>1, <3>2, <3>4, SeqEqual DEF w
    <3>. QED BY <3>5 DEF w
  <2>3. V \in SUBSET (1..Len(Chosen(u, Rest)))
    <3>1. V \in SUBSET (1..Len(queue')) BY <1>1, NamesType
    <3>. QED BY <2>1, <2>2, <3>1
  <2> DEFINE X == {Ascending(Rest)[j] : j \in V}
  <2>4. X = W(k) \cap Rest
    <3>1. /\ Len(queue') = Cardinality(Rest) /\ DOMAIN queue' = 1..Cardinality(Rest)
          /\ Ascending(Rest) \in [1..Cardinality(Rest) -> Rest]
          /\ \A i \in Rest : \E n \in 1..Cardinality(Rest) : Ascending(Rest)[n] = i
          /\ \A n \in 1..Cardinality(Rest) : queue'[n] = queue[Ascending(Rest)[n]]
      <4>1. DOMAIN queue' = 1..Len(queue') BY <1>1, LenProperties
      <4>. QED BY <1>1, <4>1, ChosenProperties DEF Enumerations
    <3>2. V = {n \in 1..Cardinality(Rest) : Ascending(Rest)[n] \in W(k)}
      <4>1. ASSUME NEW n \in 1..Cardinality(Rest)
            PROVE  n \in V <=> Ascending(Rest)[n] \in W(k)
        <5>1. Ascending(Rest)[n] \in DOMAIN queue BY <1>1, <3>1
        <5>. QED BY <1>1, <3>1, <5>1 DEF Waits
      <4>2. V \subseteq 1..Cardinality(Rest) BY <3>1 DEF Waits
      <4> HIDE DEF V, W
      <4>. QED BY <4>1, <4>2
    <3> HIDE DEF V, W
    <3>. QED BY <3>1, <3>2
  <2> HIDE DEF V, W, u
  <2>5. Chosen(Chosen(u, Rest), V) = Chosen(u, X)
    <3>1. InTwoSteps(u, Rest, V, X) BY <1>1, <1>4, <2>3 DEF InTwoSteps
    <3> HIDE DEF X
    <3>. QED BY <1>4, <3>1, ChosenChosen
  <2> HIDE DEF X
  <2>. QED BY <2>2, <2>4, <2>5 DEF Line, v, V
<1>7. ASSUME NEW k PROVE W(k) \cap Rest = W(k) \ Taken
  BY DEF Rest, Dropped, Waits, Cancelled
<1>8. ASSUME NEW i \in Taken, NEW k, k = KeyOf(queue[i])
      PROVE  /\ i \in W(k) /\ W(k) \cap Taken = {i} /\ \A j \in W(k) : i <= j
  <2>1. ASSUME NEW j \in Taken, k = KeyOf(queue[j])
        PROVE  j \in W(k) /\ \A x \in W(k) : j <= x
    <3>1. /\ j \in 1..Len(queue) /\ ~Cancelled(queue[j])
          /\ \A x \in 1..j - 1 : Cancelled(queue[x]) \/ KeyOf(queue[x]) # KeyOf(queue[j])
      BY <1>1 DEF Taken, Firsts
    <3>2. j \in W(k) BY <1>1, <2>1, <3>1 DEF Waits, KeyOf, Cancelled
    <3>3. ASSUME NEW x \in W(k) PROVE j <= x
      <4>1. x \in 1..Len(queue) /\ ~Cancelled(queue[x]) /\ KeyOf(queue[x]) = k
        BY <1>1 DEF Waits, KeyOf, Cancelled
      <4>2. x \notin 1..j - 1 BY <2>1, <3>1, <4>1
      <4>. QED BY <3>1, <4>1, <4>2
    <3>. QED BY <3>2, <3>3
  <2>2. i \in W(k) /\ \A x \in W(k) : i <= x BY <1>8, <2>1
  <2>3. ASSUME NEW j \in W(k) \cap Taken PROVE j = i
    <3>1. k = KeyOf(queue[j]) BY DEF Waits, KeyOf
    <3>2. j <= i BY <2>1, <2>2, <3>1
    <3>3. i <= j BY <2>2
    <3>4. i \in 1..Len(queue) /\ j \in 1..Len(queue) BY <1>1
    <3>. QED BY <3>2, <3>3, <3>4
  <2>. QED BY <2>2, <2>3
<1>9. ASSUME NEW i \in Taken, NEW k, k = KeyOf(queue[i])
      PROVE  /\ L(k) # <<>> /\ Head(L(k)) = queue[i].stream
             /\ Line(queue', future', k) = Tail(L(k))
  <2> DEFINE I == W(k)
  <2>1. /\ i \in I /\ \A j \in I : i <= j
        /\ I \in SUBSET (1..Len(u)) /\ I \cap Rest = I \ {i}
    BY <1>5, <1>7, <1>8, <1>9
  <2>2. L(k) = Chosen(u, I) BY DEF Line
  <2>3. Line(queue', future', k) = Chosen(u, I \cap Rest) BY <1>6
  <2>4. u[i] = queue[i].stream BY <1>1, <1>4
  <2> HIDE DEF I, L, u
  <2>5. /\ Chosen(u, I) # <<>> /\ Head(Chosen(u, I)) = u[i]
        /\ Tail(Chosen(u, I)) = Chosen(u, I \ {i})
    <3>1. FirstAndRest(I, i, I \ {i}, Len(u)) BY <2>1 DEF FirstAndRest
    <3>. QED BY <1>4, <3>1, ChosenTail
  <2>. QED BY <2>1, <2>2, <2>3, <2>4, <2>5
<1>10. ASSUME NEW k \in Keys, k \notin K PROVE Line(queue', future', k) = L(k)
  <2>1. ASSUME NEW i \in W(k) \cap Taken PROVE FALSE
    <3>1. k = KeyOf(queue[i]) BY DEF Waits, KeyOf
    <3>. QED BY <1>10, <3>1
  <2>2. W(k) \cap Rest = W(k) BY <1>7, <2>1
  <2>3. Line(queue', future', k) = Chosen(u, W(k) \cap Rest) BY <1>6
  <2>. QED BY <2>2, <2>3 DEF Line
<1>11. K \in SUBSET Keys /\ Cardinality(K) <= MaxBatch
  <2>1. \A i \in Taken : KeyOf(queue[i]) \in Keys BY <1>1, <1>4 DEF KeyOf
  <2>2. IsFiniteSet(Taken)
    <3>1. IsFiniteSet(1..Len(queue)) BY FS_Interval
    <3>. QED BY <1>1, <3>1, FS_Subset
  <2>3. IsFiniteSet(K) /\ Cardinality(K) <= Cardinality(Taken)
    <3> DEFINE key == [i \in Taken |-> KeyOf(queue[i])]
    <3>1. key \in Surjection(Taken, K) BY DEF Surjection
    <3> HIDE DEF key, K
    <3>. QED BY <2>2, <3>1, FS_Surjection
  <2>4. Cardinality(K) \in Nat BY <2>3, FS_CardinalityType
  <2> HIDE DEF K
  <2>. QED BY <1>1, <2>1, <2>3, <2>4, Sizes DEF K
<1>12. StreamsOf(batch') = {Head(L(k)) : k \in K} BY <1>3, <1>9
<1>13. \A k \in Keys : Line(queue', future', k) = IF k \in K THEN Tail(L(k)) ELSE L(k)
  BY <1>9, <1>10
<1>14. \A k \in Keys : Lines(queue, future)[k] = L(k) BY DEF Lines
<1>15. \A k \in K : L(k) # <<>> BY <1>9
<1> HIDE DEF K, L
<1>16. /\ \A k \in K : Lines(queue, future)[k] # <<>>
       /\ StreamsOf(batch') = {Head(Lines(queue, future)[k]) : k \in K}
  BY <1>11, <1>12, <1>14, <1>15
<1>17. Lines(queue', future') =
          [k \in Keys |-> IF k \in K THEN Tail(Lines(queue, future)[k])
                                     ELSE Lines(queue, future)[k]]
  BY <1>13, <1>14 DEF Lines
<1>. QED BY <1>11, <1>16, <1>17

LEMMA FairOrNothing ==
  ASSUME HandlerInv, [Next]_vars
  PROVE  \/ FairStep(Lines(queue, future), StreamsOf(batch),
                     Lines(queue', future'), StreamsOf(batch'))
         \/ /\ Lines(queue', future') = Lines(queue, future)
            /\ StreamsOf(batch') = StreamsOf(batch)
<1> DEFINE l == Lines(queue, future)
           m == Lines(queue', future')
           b == StreamsOf(batch)
           c == StreamsOf(batch')
<1>0. /\ TypeInv /\ FutureInv /\ TodoInv /\ ItemInv
      /\ queue \in Seq(QueueItems)
  BY DEF HandlerInv, TypeInv
<1>1. ASSUME UNCHANGED <<queue, batch>>,
             \A s \in StreamsOf(queue) : future'[s] = "cancelled" <=> future[s] = "cancelled"
      PROVE  m = l /\ c = b
  BY <1>1, LinesStay
<1>2. ASSUME NEW s \in Streams, Submit(s) PROVE FairStep(l, b, m, c)
  <2>1. PICK x \in QueueItems : x.stream = s /\ queue' = Append(queue, x)
    BY <1>0, <1>2, SubmitMeans
  <2>2. s \notin StreamsOf(queue)
    <3>1. ASSUME s \in StreamsOf(queue) PROVE FALSE
      <4>1. rpc[s] \in {"waiting", "cut"} BY <1>0, <3>1, ItemStreams
      <4>. QED BY <1>2, <4>1 DEF Submit
    <3>. QED BY <3>1
  <2>3. /\ future'[s] # "cancelled" /\ UNCHANGED batch
        /\ \A r \in Streams : r # s => future'[r] = future[r]
    BY <1>0, <1>2 DEF Submit, Enqueue, TypeInv, TypeOK
  <2>4. \A r \in StreamsOf(queue) : future'[r] = future[r]
    <3>1. \A r \in StreamsOf(queue) : r \in Streams /\ r # s BY <1>0, <2>2, ItemStreams
    <3>. QED BY <2>3, <3>1
  <2>5. Joins(l, m, Key[s], s)
    <3> DEFINE g == future'
               p == queue'
    <3>1. Submits(queue, future, p, g, x) BY <2>1, <2>2, <2>3, <2>4 DEF Submits
    <3> HIDE DEF g, p
    <3>2. Joins(Lines(queue, future), Lines(p, g), Key[x.stream], x.stream)
      BY <1>0, <3>1, LinesSubmit
    <3>. QED BY <2>1, <3>2 DEF g, p
  <2>6. Key[s] \in Keys /\ c = b BY <2>3
  <2> HIDE DEF l, m, b, c
  <2>. QED BY <2>5, <2>6 DEF FairStep
<1>3. ASSUME NEW s \in Streams, Cancel(s)
      PROVE  FairStep(l, b, m, c) \/ (m = l /\ c = b)
  <2>1. /\ UNCHANGED <<queue, batch>>
        /\ \A r \in Streams : r # s => future'[r] = future[r]
        /\ future'[s] = IF future[s] = "pending" THEN "cancelled" ELSE future[s]
    BY <1>0, <1>3 DEF Cancel, TypeInv, TypeOK
  <2>2. \A r \in StreamsOf(queue) : r \in Streams BY <1>0, ItemStreams
  <2>3. CASE s \in StreamsOf(queue) /\ future[s] = "pending"
    <3> DEFINE g == future'
    <3>1. Cancels(queue, future, g, s) BY <2>1, <2>3 DEF Cancels
    <3> HIDE DEF g
    <3>2. Leaves(Lines(queue, future), Lines(queue, g), Key[s], s)
      BY <1>0, <3>1, LinesCancel
    <3>3. Leaves(l, m, Key[s], s) BY <2>1, <3>2 DEF g
    <3>4. Key[s] \in Keys /\ c = b BY <2>1
    <3> HIDE DEF l, m, b, c
    <3>. QED BY <3>3, <3>4 DEF FairStep
  <2>4. CASE ~(s \in StreamsOf(queue) /\ future[s] = "pending")
    <3>1. \A r \in StreamsOf(queue) : future'[r] = future[r] BY <2>1, <2>2, <2>4
    <3>. QED BY <1>1, <2>1, <3>1
  <2>. QED BY <2>3, <2>4
<1>4. ASSUME NEW s \in Streams,
             \/ Open(s) \/ EndFrame(s) \/ Reject(s) \/ SubmitFull(s) \/ Awake(s)
             \/ Acknowledge(s) \/ \E q \in 0..MaxSequence[s] : Frame(s, q)
      PROVE  m = l /\ c = b
  <2>1. UNCHANGED <<queue, batch, future>>
    BY <1>4 DEF Open, EndFrame, Reject, SubmitFull, Awake, Acknowledge, Frame, scheduler
  <2>. QED BY <1>1, <2>1
<1>5. ASSUME Tick PROVE FairStep(l, b, m, c) \/ (m = l /\ c = b)
  <2>1. PICK K \in SUBSET Keys :
            /\ Cardinality(K) <= MaxBatch
            /\ \A k \in K : l[k] # <<>>
            /\ c = {Head(l[k]) : k \in K}
            /\ m = [k \in Keys |-> IF k \in K THEN Tail(l[k]) ELSE l[k]]
    BY <1>5, LinesTick
  <2>2. b = {} BY <1>5 DEF Tick, StreamsOf
  <2>3. l = [k \in Keys |-> l[k]] BY DEF Lines
  <2> HIDE DEF l, m, b, c
  <2>4. CASE K = {} BY <2>1, <2>2, <2>3, <2>4
  <2>5. CASE K # {} BY <2>1, <2>2, <2>5 DEF FairStep
  <2>. QED BY <2>4, <2>5
<1>6. ASSUME Recognize \/ EngineRaises PROVE FairStep(l, b, m, c) \/ (m = l /\ c = b)
  <2>1. /\ UNCHANGED queue /\ c = {} /\ b # {}
    <3>1. batch # <<>> /\ batch' = <<>> /\ UNCHANGED queue
      BY <1>6 DEF Recognize, EngineRaises
    <3>2. batch \in Seq(QueueItems) BY <1>0 DEF TypeInv
    <3>3. 1 \in DOMAIN batch BY <3>1, <3>2
    <3>. QED BY <3>1, <3>3 DEF StreamsOf
  <2>2. \A s \in StreamsOf(queue) : future'[s] = "cancelled" <=> future[s] = "cancelled"
    <3>1. \A s \in StreamsOf(queue) : s \in Streams BY <1>0, ItemStreams
    <3>. QED BY <1>6, <3>1 DEF Recognize, EngineRaises, Settle
  <2>3. m = l BY <2>1, <2>2, LinesStay
  <2> HIDE DEF l, m, b, c
  <2>. QED BY <2>1, <2>3 DEF FairStep
<1>7. ASSUME CloseScheduler PROVE FairStep(l, b, m, c) \/ (m = l /\ c = b)
  <2>1. queue' = <<>> /\ c = {} BY <1>7 DEF CloseScheduler, StreamsOf
  <2>2. ASSUME NEW k \in Keys PROVE Line(<<>>, future', k) = <<>>
    <3>1. Names(<<>>) = <<>> /\ Waits(<<>>, future', k) = {} BY DEF Names, Waits
    <3>2. <<>> \in Seq(Streams) OBVIOUS
    <3>3. Chosen(<<>>, {}) = <<>> BY <3>2, ChosenNothing
    <3>. QED BY <3>1, <3>3 DEF Line
  <2>3. m = [k \in Keys |-> <<>>] BY <2>1, <2>2 DEF Lines
  <2> HIDE DEF l, m, b, c
  <2>. QED BY <2>1, <2>3 DEF FairStep
<1>8. ASSUME Stop \/ UNCHANGED vars PROVE FairStep(l, b, m, c) \/ (m = l /\ c = b)
  <2>1. UNCHANGED <<queue, batch, future>> BY <1>8 DEF Stop, vars, scheduler
  <2>. QED BY <1>1, <2>1
<1>9. FairStep(l, b, m, c) \/ (m = l /\ c = b)
  <2> HIDE DEF l, m, b, c
  <2>. QED
    BY <1>2, <1>3, <1>4, <1>5, <1>6, <1>7, <1>8 DEF Next, Handler
<1>. QED BY <1>9 DEF l, m, b, c

(* The scheduler implements FairBatches: whatever is deferred, cancelled,  *)
(* dropped or answered with an error, the chunks of a session are taken in *)
(* the order they were submitted, one to a batch, and none is lost.        *)
THEOREM SchedulerIsFair == Spec => SchedulerSpec
<1> DEFINE line == [k \in Keys |-> LineOf(k)]
<1>1. line = Lines(queue, future)
  BY DEF LineOf, WaitingFor, KeyOf, Cancelled, Lines, Line, Names, Waits
<1>2. line' = Lines(queue', future')
  BY DEF LineOf, WaitingFor, KeyOf, Cancelled, Lines, Line, Names, Waits
<1>3. Init => Batches!Init
  <2> SUFFICES ASSUME Init PROVE Batches!Init
    OBVIOUS
  <2>1. queue = <<>> /\ StreamsOf(batch) = {} BY DEF Init, StreamsOf
  <2>2. ASSUME NEW k \in Keys PROVE LineOf(k) = <<>>
    <3>1. [i \in DOMAIN queue |-> queue[i].stream] = <<>> /\ WaitingFor(k) = {}
      BY <2>1 DEF WaitingFor
    <3>2. <<>> \in Seq(Streams) OBVIOUS
    <3>3. Chosen(<<>>, {}) = <<>> BY <3>2, ChosenNothing
    <3>. QED BY <3>1, <3>3 DEF LineOf
  <2>. QED BY <2>1, <2>2 DEF Batches!Init
<1>4. HandlerInv /\ [Next]_vars => [Batches!Next]_<<line, StreamsOf(batch)>>
  <2> SUFFICES ASSUME HandlerInv, [Next]_vars
               PROVE  Batches!Next \/ UNCHANGED <<line, StreamsOf(batch)>>
    OBVIOUS
  <2> DEFINE b == StreamsOf(batch)
  <2>1. b' = StreamsOf(batch') BY DEF StreamsOf
  <2>2. \/ FairStep(line, b, line', b')
        \/ line' = line /\ b' = b
    BY <1>1, <1>2, <2>1, FairOrNothing
  <2>3. ASSUME FairStep(line, b, line', b') PROVE Batches!Next
    <3> HIDE DEF line, b
    <3>1. FairStep(line, b, line', b') BY <2>3
    <3>2. ASSUME NEW S PROVE Batches!Cardinality(S) = Cardinality(S)
      BY DEF Batches!Cardinality, Cardinality
    <3>3. ASSUME NEW q, NEW I PROVE Batches!Chosen(q, I) = Chosen(q, I)
      <4>1. \A i : Batches!Below(I, i) = Below(I, i) BY DEF Batches!Below, Below
      <4>2. Batches!Ascending(I) = Ascending(I)
        <5>1. \A i : Batches!Cardinality(Batches!Below(I, i)) = Cardinality(Below(I, i))
          BY <3>2, <4>1
        <5>2. ASSUME NEW n
              PROVE  (CHOOSE i \in I : Batches!Cardinality(Batches!Below(I, i)) = n - 1)
                        = CHOOSE i \in I : Cardinality(Below(I, i)) = n - 1
          BY <5>1
        <5> DEFINE P(n) == CHOOSE i \in I : Batches!Cardinality(Batches!Below(I, i)) = n - 1
                   Q(n) == CHOOSE i \in I : Cardinality(Below(I, i)) = n - 1
        <5>3. /\ Batches!Ascending(I) = [n \in 1..Batches!Cardinality(I) |-> P(n)]
              /\ Ascending(I) = [n \in 1..Cardinality(I) |-> Q(n)]
              /\ \A n : P(n) = Q(n)
          BY <5>2 DEF Batches!Ascending, Ascending
        <5> HIDE DEF P, Q
        <5>. QED BY <3>2, <5>3
      <4>. QED BY <3>2, <4>2, Zenon DEF Batches!Chosen, Chosen
    <3>. QED
      BY <3>1, <3>2, <3>3
         DEF FairStep, Joins, Leaves, Batches!Next, Batches!Ask, Batches!Leave,
             Batches!Take, Batches!Recognized, Batches!Shut, line, b
  <2>. QED BY <2>2, <2>3
<1>. QED BY <1>3, <1>4, Handlers, PTL DEF Spec, SchedulerSpec, Batches!Spec
=============================================================================
