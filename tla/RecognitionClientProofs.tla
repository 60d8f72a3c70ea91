----------------------- MODULE RecognitionClientProofs -----------------------
(***************************************************************************)
(* Theorems about RecognitionClient for every set of connections, with and *)
(* without a failure of the service, and every number of frames.           *)
(***************************************************************************)
EXTENDS RecognitionClient, SubsequencesProofs

USE HandlersAssumption, BoundAssumption

-----------------------------------------------------------------------------
(* The transcripts among some events.                                      *)

FinalsOf(evs) == {i \in 1..Len(evs) : evs[i].type = "final"}

LEMMA TranscriptsProperties ==
  ASSUME NEW evs \in Seq(Events)
  PROVE  /\ Transcripts(evs) \in Seq(Numbers)
         /\ Len(Transcripts(evs)) = Len(Chosen(evs, FinalsOf(evs)))
         /\ \A n \in 1..Len(Transcripts(evs)) :
               Transcripts(evs)[n] = Chosen(evs, FinalsOf(evs))[n].seq
         /\ \E f \in [1..Len(Transcripts(evs)) -> FinalsOf(evs)] :
               /\ \A n \in 1..Len(Transcripts(evs)) : Transcripts(evs)[n] = evs[f[n]].seq
               /\ \A l, m \in 1..Len(Transcripts(evs)) : l < m => f[l] < f[m]
<1> DEFINE I == FinalsOf(evs)
           fs == Chosen(evs, I)
           f == Ascending(I)
<1>1. I \in SUBSET (1..Len(evs)) BY DEF FinalsOf
<1>2. /\ fs \in Seq(Events) /\ Len(fs) \in Nat /\ f \in [1..Len(fs) -> I]
      /\ \A n \in 1..Len(fs) : fs[n] = evs[f[n]]
      /\ \A l, m \in 1..Len(fs) : l < m => f[l] < f[m]
  BY <1>1, ChosenProperties DEF Enumerations
<1> HIDE DEF f, fs
<1>3. \A i \in I : evs[i] \in Events /\ evs[i].type = "final"
  BY <1>1 DEF FinalsOf
<1>4. \A n \in 1..Len(fs) : fs[n].seq \in Numbers
  <2>1. \A e \in Events : e.type = "final" => e.seq \in Numbers BY DEF Events, Error
  <2>. QED BY <1>2, <1>3, <2>1
<1>5. Transcripts(evs) = [n \in 1..Len(fs) |-> fs[n].seq]
  <2>1. DOMAIN evs = 1..Len(evs) BY LenProperties
  <2>2. I = {i \in DOMAIN evs : evs[i].type = "final"} BY <2>1 DEF FinalsOf
  <2>3. DOMAIN fs = 1..Len(fs) BY <1>2, LenProperties
  <2>. QED BY <2>2, <2>3 DEF Transcripts, fs
<1>6. /\ Transcripts(evs) \in Seq(Numbers) /\ Len(Transcripts(evs)) = Len(fs)
      /\ \A n \in 1..Len(fs) : Transcripts(evs)[n] = fs[n].seq
  BY <1>2, <1>4, <1>5
<1>7. \E g \in [1..Len(fs) -> I] :
         /\ \A n \in 1..Len(fs) : Transcripts(evs)[n] = evs[g[n]].seq
         /\ \A l, m \in 1..Len(fs) : l < m => g[l] < g[m]
  BY <1>2, <1>6, SMTT(30)
<1>. QED BY <1>6, <1>7 DEF fs

LEMMA JoinProperties ==
  ASSUME NEW S, NEW s \in Seq(S), NEW t \in Seq(S)
  PROVE  /\ Join(s, t) \in Seq(S) /\ Len(Join(s, t)) = Len(s) + Len(t)
         /\ \A n \in 1..Len(s) + Len(t) :
               Join(s, t)[n] = IF n <= Len(s) THEN s[n] ELSE t[n - Len(s)]
BY DEF Join

LEMMA TranscriptsJoin ==
  ASSUME NEW s \in Seq(Events), NEW t \in Seq(Events)
  PROVE  Transcripts(Join(s, t)) = Join(Transcripts(s), Transcripts(t))
<1> DEFINE a == Chosen(s, FinalsOf(s))
           b == Chosen(t, FinalsOf(t))
           L == FinalsOf(Join(s, t))
<1>1. /\ Join(s, t) \in Seq(Events) /\ Len(Join(s, t)) = Len(s) + Len(t)
      /\ \A i \in 1..Len(s) : Join(s, t)[i] = s[i]
      /\ \A j \in 1..Len(t) : Join(s, t)[Len(s) + j] = t[j]
      /\ Len(s) \in Nat /\ Len(t) \in Nat
  BY DEF Join
<1>2. /\ FinalsOf(s) \in SUBSET (1..Len(s)) /\ FinalsOf(t) \in SUBSET (1..Len(t))
      /\ L \in SUBSET (1..Len(s) + Len(t))
      /\ \A i \in 1..Len(s) : i \in L <=> i \in FinalsOf(s)
      /\ \A j \in 1..Len(t) : Len(s) + j \in L <=> j \in FinalsOf(t)
  BY <1>1 DEF FinalsOf
<1>3. Chosen(Join(s, t), L) = Join(a, b)
  <2> HIDE DEF L
  <2>. QED BY <1>2, ChosenJoin
<1>4. a \in Seq(Events) /\ b \in Seq(Events) BY <1>2, ChosenProperties
<1> HIDE DEF a, b, L
<1>5. /\ Len(Join(a, b)) = Len(a) + Len(b) /\ Len(a) \in Nat /\ Len(b) \in Nat
      /\ \A n \in 1..Len(a) + Len(b) :
            Join(a, b)[n] = IF n <= Len(a) THEN a[n] ELSE b[n - Len(a)]
  BY <1>4 DEF Join
<1>6. /\ Transcripts(s) \in Seq(Numbers) /\ Len(Transcripts(s)) = Len(a)
      /\ \A n \in 1..Len(a) : Transcripts(s)[n] = a[n].seq
  BY TranscriptsProperties DEF a
<1>7. /\ Transcripts(t) \in Seq(Numbers) /\ Len(Transcripts(t)) = Len(b)
      /\ \A n \in 1..Len(b) : Transcripts(t)[n] = b[n].seq
  BY TranscriptsProperties DEF b
<1>8. /\ Transcripts(Join(s, t)) \in Seq(Numbers)
      /\ Len(Transcripts(Join(s, t))) = Len(a) + Len(b)
      /\ \A n \in 1..Len(a) + Len(b) : Transcripts(Join(s, t))[n] = Join(a, b)[n].seq
  <2> DEFINE c == Join(s, t)
  <2>1. c \in Seq(Events) /\ Chosen(c, FinalsOf(c)) = Join(a, b) BY <1>1, <1>3 DEF L
  <2> HIDE DEF c
  <2>2. /\ Transcripts(c) \in Seq(Numbers) /\ Len(Transcripts(c)) = Len(Join(a, b))
        /\ \A n \in 1..Len(Transcripts(c)) : Transcripts(c)[n] = Join(a, b)[n].seq
    BY <2>1, TranscriptsProperties
  <2>. QED BY <1>5, <2>2 DEF c
<1>9. /\ Join(Transcripts(s), Transcripts(t)) \in Seq(Numbers)
      /\ Len(Join(Transcripts(s), Transcripts(t))) = Len(a) + Len(b)
      /\ \A n \in 1..Len(a) + Len(b) :
            Join(Transcripts(s), Transcripts(t))[n] = Join(a, b)[n].seq
  <2> DEFINE u == Transcripts(s)
             v == Transcripts(t)
             w == Join(u, v)
  <2>1. /\ u \in Seq(Numbers) /\ Len(u) = Len(a) /\ \A n \in 1..Len(a) : u[n] = a[n].seq
        /\ v \in Seq(Numbers) /\ Len(v) = Len(b) /\ \A n \in 1..Len(b) : v[n] = b[n].seq
    BY <1>6, <1>7
  <2> HIDE DEF u, v
  <2>2. /\ w \in Seq(Numbers) /\ Len(w) = Len(u) + Len(v)
        /\ \A n \in 1..Len(u) + Len(v) :
              w[n] = IF n <= Len(u) THEN u[n] ELSE v[n - Len(u)]
    <3>1. u \in Seq(Numbers) /\ v \in Seq(Numbers) BY <2>1
    <3>. QED BY <3>1, JoinProperties, Zenon
  <2> HIDE DEF w
  <2>3. ASSUME NEW n \in 1..Len(a) + Len(b)
        PROVE  w[n] = Join(a, b)[n].seq
    <3>1. CASE n <= Len(a)
      <4>1. n \in 1..Len(a) BY <1>5, <3>1
      <4>. QED BY <1>5, <2>1, <2>2, <4>1, <3>1
    <3>2. CASE ~ n <= Len(a)
      <4>1. n - Len(a) \in 1..Len(b) BY <1>5, <3>2
      <4>. QED BY <1>5, <2>1, <2>2, <4>1, <3>2, SMTT(30)
    <3>. QED BY <3>1, <3>2
  <2>. QED BY <2>1, <2>2, <2>3 DEF u, v, w
<1>. QED BY <1>8, <1>9, SeqEqual

LEMMA TranscriptsNone ==
  ASSUME NEW evs \in Seq(Events), \A i \in 1..Len(evs) : evs[i].type # "final"
  PROVE  Transcripts(evs) = <<>>
<1>1. FinalsOf(evs) = {} BY DEF FinalsOf
<1>2. Len(Transcripts(evs)) = Len(<<>>) BY <1>1, TranscriptsProperties, ChosenNothing
<1>. QED BY <1>2, TranscriptsProperties, EmptySeq

-----------------------------------------------------------------------------
(* Type correctness.                                                       *)

LEMMA SendType ==
  ASSUME TypeInv, NEW h \in Senders, NEW n \in Numbers, NEW end \in BOOLEAN,
         Send(h, n, end), last' \in -1..MaxFrame
  PROVE  TypeInv'
<1>1. [seq |-> n, end |-> end] \in Requests BY DEF Requests
<1>2. requests' \in Seq(Requests) BY <1>1 DEF TypeInv, Send
<1>3. n \in -1..MaxFrame + 1 BY DEF Numbers
<1>4. /\ pc' \in [Senders -> {"idle", "sending", "ending", "gone"}]
      /\ want' \in [Senders -> -1..MaxFrame + 1]
      /\ ready' \in Seq(Senders)
  BY <1>3 DEF TypeInv, Send
<1>5. clean' \in BOOLEAN BY DEF TypeInv, Send
<1>. QED BY <1>2, <1>4, <1>5 DEF TypeInv, Send

(* The new number is one more than the last.                               *)
LEMMA NextNumber ==
  ASSUME TypeInv
  PROVE  last + 1 \in Numbers /\ (last < MaxFrame => last + 1 \in -1..MaxFrame)
BY DEF TypeInv, Numbers

LEMMA ServeType == ASSUME TypeInv, Serve PROVE TypeInv'
<1> DEFINE f == Head(requests)
<1>1. f \in Requests /\ Tail(requests) \in Seq(Requests)
  BY HeadTailProperties DEF TypeInv, Serve
<1>2. f.seq \in Numbers /\ f.end \in BOOLEAN BY <1>1 DEF Requests
<1> HIDE DEF f
<1>3. [type |-> "final", seq |-> f.seq] \in Events /\ [type |-> "ack", seq |-> f.seq] \in Events
  BY <1>2 DEF Events
<1>4. wire' \in Seq(Events) /\ finals' \in Seq(Numbers)
  <2>1. PICK sentence \in BOOLEAN :
          /\ wire' = wire
                \o (IF sentence THEN <<[type |-> "final", seq |-> f.seq]>> ELSE <<>>)
                \o <<[type |-> "ack", seq |-> f.seq]>>
          /\ finals' = IF sentence THEN Append(finals, f.seq) ELSE finals
    BY DEF Serve, f
  <2>2. finals' \in Seq(Numbers) BY <1>2, <2>1 DEF TypeInv
  <2> DEFINE a == [type |-> "final", seq |-> f.seq]
             b == [type |-> "ack", seq |-> f.seq]
  <2>3. wire' = wire \o (IF sentence THEN <<a>> ELSE <<>>) \o <<b>> BY <2>1
  <2>4. a \in Events /\ b \in Events BY <1>3
  <2> HIDE DEF a, b
  <2>5. wire' \in Seq(Events)
    <3>1. CASE sentence BY <2>3, <2>4, <3>1 DEF TypeInv
    <3>2. CASE ~sentence BY <2>3, <2>4, <3>2 DEF TypeInv
    <3>. QED BY <3>1, <3>2
  <2>. QED BY <2>2, <2>5
<1>5. heard' = f.seq /\ service' \in {"up", "returned"} /\ requests' \in Seq(Requests)
  BY <1>1 DEF Serve, f
<1>6. heard' \in -1..MaxFrame + 1 BY <1>2, <1>5 DEF Numbers
<1>. QED BY <1>4, <1>5, <1>6 DEF TypeInv, Serve, waiting, session

LEMMA ReadType == ASSUME TypeInv, Read PROVE TypeInv'
<1>1. wire' \in Seq(Events) /\ events' \in Seq(Events)
  BY HeadTailProperties DEF TypeInv, Read
<1>2. ready' \in Seq(Senders) /\ getters' \in Seq(Senders)
  BY HeadTailProperties DEF TypeInv, Read
<1>. QED BY <1>1, <1>2 DEF TypeInv, Read, session, history

LEMMA SleepType ==
  ASSUME TypeInv, NEW h \in Senders, Sleep(h), ready' \in Seq(Senders),
         UNCHANGED <<requests, service, wire, heard, finals, clean>>
  PROVE  TypeInv'
<1>1. Transcripts(events) \in Seq(Numbers) BY TranscriptsProperties DEF TypeInv
<1>2. got' \in [Senders -> Seq(Numbers)] BY <1>1 DEF TypeInv, Sleep
<1>3. events' \in Seq(Events) /\ getters' \in Seq(Senders) BY DEF TypeInv, Sleep
<1>. QED BY <1>2, <1>3 DEF TypeInv, Sleep, session

(* The event that ends a wait: what is there before it, and after.         *)
LEMMA Cutting ==
  ASSUME TypeInv, NEW i \in DOMAIN events
  PROVE  /\ i \in 1..Len(events) /\ Len(events) \in Nat
         /\ SubSeq(events, 1, i) \in Seq(Events) /\ Len(SubSeq(events, 1, i)) = i
         /\ \A j \in 1..i : SubSeq(events, 1, i)[j] = events[j]
         /\ SubSeq(events, i + 1, Len(events)) \in Seq(Events)
         /\ Len(SubSeq(events, i + 1, Len(events))) = Len(events) - i
         /\ \A j \in 1..Len(events) - i :
               SubSeq(events, i + 1, Len(events))[j] = events[j + i]
<1>1. events \in Seq(Events) BY DEF TypeInv
<1>2. i \in 1..Len(events) /\ Len(events) \in Nat BY <1>1
<1>3. \A j \in 1..i : events[j] \in Events BY <1>1, <1>2
<1>4. \A j \in i + 1..Len(events) : events[j] \in Events BY <1>1, <1>2
<1>5. /\ SubSeq(events, 1, i) \in Seq(Events) /\ Len(SubSeq(events, 1, i)) = i
      /\ \A j \in 1..i : SubSeq(events, 1, i)[j] = events[j]
  BY <1>1, <1>2, <1>3, SubSeqProperties
<1>6. /\ SubSeq(events, i + 1, Len(events)) \in Seq(Events)
      /\ Len(SubSeq(events, i + 1, Len(events))) = Len(events) - i
      /\ \A j \in 1..Len(events) - i :
            SubSeq(events, i + 1, Len(events))[j] = events[j + i]
  BY <1>1, <1>2, <1>4, SubSeqProperties
<1>. QED BY <1>2, <1>5, <1>6

LEMMA ReturnType ==
  ASSUME TypeInv, NEW h \in Senders, Return(h), ready' \in Seq(Senders),
         UNCHANGED <<requests, service, wire, heard, finals, clean>>
  PROVE  TypeInv'
<1>1. PICK i \in DOMAIN events :
        /\ events' = SubSeq(events, i + 1, Len(events))
        /\ \/ /\ pc' = [pc EXCEPT ![h] = "gone"]
              /\ UNCHANGED <<segments, closed, acked>>
           \/ /\ pc' = [pc EXCEPT ![h] = "idle"]
              /\ segments' = segments \o got[h] \o Transcripts(SubSeq(events, 1, i))
              /\ closed' = (closed \/ pc[h] = "ending")
              /\ acked' = IF want[h] > acked THEN want[h] ELSE acked
  BY DEF Return
<1>2. events' \in Seq(Events) /\ SubSeq(events, 1, i) \in Seq(Events)
  BY <1>1, Cutting
<1>3. Transcripts(SubSeq(events, 1, i)) \in Seq(Numbers)
  BY <1>2, TranscriptsProperties
<1>4. got' \in [Senders -> Seq(Numbers)] BY DEF TypeInv, Return
<1>5. pc' \in [Senders -> {"idle", "sending", "ending", "gone"}] BY <1>1 DEF TypeInv
<1>6. segments' \in Seq(Numbers)
  <2> DEFINE a == got[h]
             b == Transcripts(SubSeq(events, 1, i))
  <2>1. a \in Seq(Numbers) /\ b \in Seq(Numbers) /\ segments \in Seq(Numbers)
    BY <1>3 DEF TypeInv
  <2>2. segments' = segments \/ segments' = segments \o a \o b BY <1>1
  <2> HIDE DEF a, b
  <2>3. segments \o a \in Seq(Numbers) BY <2>1, ConcatProperties
  <2>4. segments \o a \o b \in Seq(Numbers) BY <2>1, <2>3, ConcatProperties
  <2>. QED BY <2>1, <2>2, <2>4, Zenon
<1>7. closed' \in BOOLEAN /\ acked' \in -1..MaxFrame + 1
  <2>1. closed' = closed \/ closed' = (closed \/ pc[h] = "ending") BY <1>1
  <2>2. closed' \in BOOLEAN BY <2>1 DEF TypeInv
  <2>3. want[h] \in -1..MaxFrame + 1 /\ acked \in -1..MaxFrame + 1 BY DEF TypeInv
  <2>4. acked' \in {want[h], acked} BY <1>1
  <2>. QED BY <2>2, <2>3, <2>4
<1>8. UNCHANGED <<want, getters, last>> BY DEF Return
<1>. QED BY <1>2, <1>4, <1>5, <1>6, <1>7, <1>8 DEF TypeInv

LEMMA InitType == ASSUME Init PROVE TypeInv
<1>1. <<>> \in Seq(Senders) /\ <<>> \in Seq(Numbers) /\ <<>> \in Seq(Requests)
      /\ <<>> \in Seq(Events)
  OBVIOUS
<1>2. -1 \in -1..MaxFrame /\ -1 \in -1..MaxFrame + 1 OBVIOUS
<1>3. /\ pc \in [Senders -> {"idle", "sending", "ending", "gone"}]
      /\ want \in [Senders -> -1..MaxFrame + 1]
      /\ got \in [Senders -> Seq(Numbers)]
  BY <1>1, <1>2 DEF Init
<1>. QED BY <1>1, <1>2, <1>3 DEF Init, TypeInv

LEMMA StepType == ASSUME TypeInv, [Next]_vars PROVE TypeInv'
<1>1. ASSUME NEW h \in Senders, Accept(h) PROVE TypeInv'
  BY <1>1, NextNumber, SendType DEF Accept
<1>2. ASSUME NEW h \in Senders, End(h) PROVE TypeInv'
  <2>1. last' \in -1..MaxFrame BY <1>2 DEF End, TypeInv
  <2>. QED BY <1>2, <2>1, NextNumber, SendType DEF End
<1>3. CASE Close BY <1>3 DEF Close, TypeInv, session, stream, history
<1>4. CASE Serve BY <1>4, ServeType
<1>5. CASE Fail
  <2>1. Error \in Events BY DEF Events
  <2>2. wire' \in Seq(Events) BY <1>5, <2>1 DEF Fail, TypeInv
  <2>. QED BY <1>5, <2>2 DEF Fail, TypeInv, waiting, session, history
<1>6. CASE Read BY <1>6, ReadType
<1>7. CASE Get
  <2>1. Head(ready) \in Senders /\ ready' \in Seq(Senders)
    BY <1>7, HeadTailProperties DEF Get, TypeInv
  <2>2. UNCHANGED <<requests, service, wire, heard, finals, clean>> BY <1>7 DEF Get
  <2>. QED BY <1>7, <2>1, <2>2, SleepType, ReturnType DEF Get
<1>8. CASE UNCHANGED vars
  BY <1>8 DEF vars, TypeInv, waiting, session, stream, history
<1>. QED BY <1>1, <1>2, <1>3, <1>4, <1>5, <1>6, <1>7, <1>8 DEF Next

-----------------------------------------------------------------------------
(* What the actions do to the events that are coming.                      *)

LEMMA EventItems ==
  /\ Error \in Events /\ Error.type = "error" /\ Error.seq = -1
  /\ \A e \in Events : /\ e.seq \in -1..MaxFrame + 1
                       /\ e.type \in {"final", "ack", "error"}
                       /\ e = Error <=> e.type = "error"
                       /\ e # Error => e.seq \in Numbers
<1>1. Error \in Events /\ Error.type = "error" /\ Error.seq = -1 BY DEF Events, Error
<1>2. ASSUME NEW e \in [type : {"final", "ack"}, seq : Numbers]
      PROVE  /\ e.seq \in -1..MaxFrame + 1 /\ e.seq \in Numbers
             /\ e.type \in {"final", "ack"} /\ e # Error
  <2>1. e.seq \in Numbers /\ e.type \in {"final", "ack"} OBVIOUS
  <2>2. \A n \in Numbers : n \in -1..MaxFrame + 1 BY DEF Numbers
  <2>. QED BY <1>1, <2>1, <2>2
<1>3. -1 \in -1..MaxFrame + 1 OBVIOUS
<1>. QED BY <1>1, <1>2, <1>3 DEF Events

LEMMA ComingType ==
  ASSUME TypeInv
  PROVE  /\ Coming \in Seq(Events) /\ DOMAIN Coming = 1..Len(Coming)
         /\ Len(Coming) = Len(events) + Len(wire)
         /\ Len(events) \in Nat /\ Len(wire) \in Nat
         /\ DOMAIN events = 1..Len(events) /\ DOMAIN wire = 1..Len(wire)
         /\ \A i \in 1..Len(Coming) :
               /\ Coming[i] = IF i <= Len(events) THEN events[i] ELSE wire[i - Len(events)]
               /\ Coming[i] \in Events
<1>1. events \in Seq(Events) /\ wire \in Seq(Events) BY DEF TypeInv
<1>2. /\ Coming \in Seq(Events) /\ Len(Coming) = Len(events) + Len(wire)
      /\ \A i \in 1..Len(events) + Len(wire) :
            Coming[i] = IF i <= Len(events) THEN events[i] ELSE wire[i - Len(events)]
  BY <1>1, JoinProperties DEF Coming, Join
<1>. QED BY <1>1, <1>2

LEMMA ComingTypeNext ==
  ASSUME TypeInv'
  PROVE  /\ Coming' \in Seq(Events) /\ Len(Coming') = Len(events') + Len(wire')
         /\ Len(events') \in Nat /\ Len(wire') \in Nat
         /\ \A i \in 1..Len(Coming') :
               Coming'[i] = IF i <= Len(events') THEN events'[i] ELSE wire'[i - Len(events')]
<1>1. events' \in Seq(Events) /\ wire' \in Seq(Events) BY DEF TypeInv
<1>2. Coming' = Join(events', wire') BY DEF Coming, Join
<1>3. /\ Join(events', wire') \in Seq(Events)
      /\ Len(Join(events', wire')) = Len(events') + Len(wire')
      /\ \A i \in 1..Len(events') + Len(wire') :
            Join(events', wire')[i] =
               IF i <= Len(events') THEN events'[i] ELSE wire'[i - Len(events')]
  BY <1>1, JoinProperties
<1>. QED BY <1>1, <1>2, <1>3

LEMMA TwoEvents ==
  ASSUME NEW a, NEW b
  PROVE  <<a>> \o <<b>> = <<a, b>>
<1> DEFINE s == <<a>>
           t == <<b>>
           u == <<a, b>>
<1>1. /\ s \in Seq({a, b}) /\ t \in Seq({a, b}) /\ Len(s) = 1 /\ Len(t) = 1
      /\ s[1] = a /\ t[1] = b
  OBVIOUS
<1>2. u \in Seq({a, b}) /\ Len(u) = 2 /\ u[1] = a /\ u[2] = b OBVIOUS
<1> HIDE DEF s, t, u
<1>3. s \o t \in Seq({a, b}) /\ Len(s \o t) = 2 /\ (s \o t)[1] = a /\ (s \o t)[2] = b
  <2>1. s \o t \in Seq({a, b}) /\ Len(s \o t) = Len(s) + Len(t) BY <1>1, ConcatProperties
  <2>2. \A i \in 1..Len(s) + Len(t) :
           (s \o t)[i] = IF i <= Len(s) THEN s[i] ELSE t[i - Len(s)]
    BY <1>1, ConcatProperties
  <2>3. (s \o t)[1] = s[1] /\ (s \o t)[2] = t[1] BY <1>1, <2>2
  <2>. QED BY <1>1, <2>1, <2>3
<1>4. \A i \in 1..2 : i = 1 \/ i = 2 OBVIOUS
<1>5. s \o t = u BY <1>2, <1>3, <1>4, SeqEqual
<1>. QED BY <1>5 DEF s, t, u

(* The first k events are gone.                                            *)
Drops(k) ==
  /\ k \in 0..Len(Coming) /\ Len(Coming') = Len(Coming) - k
  /\ \A j \in 1..Len(Coming') : Coming'[j] = Coming[j + k]

(* The events new are the last.                                            *)
Grows(new) ==
  /\ new \in Seq(Events) /\ Coming' = Join(Coming, new)
  /\ Len(Coming') = Len(Coming) + Len(new)
  /\ \A j \in 1..Len(Coming) : Coming'[j] = Coming[j]
  /\ \A j \in 1..Len(Coming') : Len(Coming) < j => Coming'[j] = new[j - Len(Coming)]

LEMMA ComingKept ==
  ASSUME UNCHANGED <<events, wire>>
  PROVE  Coming' = Coming
BY DEF Coming

LEMMA ReadComing == ASSUME TypeInv, Read PROVE Coming' = Coming
<1>1. events \in Seq(Events) /\ wire \in Seq(Events) BY DEF TypeInv
<1>2. wire # <<>> /\ wire' = Tail(wire) /\ events' = Append(events, Head(wire)) BY DEF Read
<1>3. Head(wire) \in Events /\ Tail(wire) \in Seq(Events) BY <1>1, <1>2
<1>4. /\ events' \in Seq(Events) /\ Len(events') = Len(events) + 1
      /\ \A i \in 1..Len(events) : events'[i] = events[i]
      /\ events'[Len(events) + 1] = Head(wire)
  BY <1>1, <1>2, <1>3
<1>5. /\ Len(wire') = Len(wire) - 1 /\ Len(wire) > 0
      /\ \A i \in 1..Len(wire') : wire'[i] = wire[i + 1]
      /\ wire[1] = Head(wire)
  BY <1>1, <1>2
<1>6. TypeInv' BY ReadType
<1>7. Coming \in Seq(Events) /\ Coming' \in Seq(Events)
      /\ Len(Coming) = Len(events) + Len(wire) /\ Len(Coming') = Len(events') + Len(wire')
      /\ Len(events) \in Nat /\ Len(wire) \in Nat
  BY <1>6, ComingType, ComingTypeNext
<1>8. ASSUME NEW i \in 1..Len(Coming) PROVE Coming'[i] = Coming[i]
  <2>1. Coming[i] = IF i <= Len(events) THEN events[i] ELSE wire[i - Len(events)]
    BY ComingType
  <2>2. Coming'[i] = IF i <= Len(events') THEN events'[i] ELSE wire'[i - Len(events')]
    BY <1>4, <1>5, <1>6, <1>7, ComingTypeNext, SMTT(30)
  <2>3. CASE i <= Len(events)
    <3>1. i \in 1..Len(events) /\ i <= Len(events') BY <1>4, <1>7, <2>3
    <3>. QED BY <1>4, <2>1, <2>2, <2>3, <3>1
  <2>4. CASE i = Len(events) + 1
    BY <1>4, <1>5, <1>7, <2>1, <2>2, <2>4
  <2>5. CASE i > Len(events) + 1
    <3>1. i - Len(events') \in 1..Len(wire') /\ i - Len(events') + 1 = i - Len(events)
      BY <1>4, <1>5, <1>7, <2>5
    <3>2. ~ i <= Len(events) /\ ~ i <= Len(events') BY <1>4, <1>7, <2>5
    <3>. QED BY <1>5, <2>1, <2>2, <3>1, <3>2
  <2>. QED BY <1>7, <2>3, <2>4, <2>5
<1>. QED BY <1>4, <1>5, <1>7, <1>8, SeqEqual

LEMMA WireGrows ==
  ASSUME TypeInv, NEW new \in Seq(Events), events' = events, wire' = wire \o new
  PROVE  Grows(new)
<1>1. events \in Seq(Events) /\ wire \in Seq(Events) BY DEF TypeInv
<1>2. Coming' = Join(Coming, new)
  <2>1. events \o (wire \o new) = (events \o wire) \o new BY <1>1, ConcatAssociative, SMTT(30)
  <2>. QED BY <2>1 DEF Coming, Join
<1>3. Coming \in Seq(Events) /\ Len(Coming) \in Nat BY ComingType
<1>4. /\ Join(Coming, new) \in Seq(Events) /\ Len(Join(Coming, new)) = Len(Coming) + Len(new)
      /\ \A n \in 1..Len(Coming) + Len(new) :
            Join(Coming, new)[n] = IF n <= Len(Coming) THEN Coming[n] ELSE new[n - Len(Coming)]
  BY <1>3, JoinProperties
<1>5. Len(new) \in Nat OBVIOUS
<1>. QED BY <1>2, <1>3, <1>4, <1>5 DEF Grows

LEMMA SleepComing ==
  ASSUME TypeInv, events' = <<>>, wire' = wire
  PROVE  Drops(Len(events)) /\ Coming' = wire
<1>1. events \in Seq(Events) /\ wire \in Seq(Events) BY DEF TypeInv
<1>2. Coming' = wire BY <1>1 DEF Coming
<1>3. /\ Len(Coming) = Len(events) + Len(wire) /\ Len(events) \in Nat /\ Len(wire) \in Nat
      /\ \A i \in 1..Len(Coming) :
            Coming[i] = IF i <= Len(events) THEN events[i] ELSE wire[i - Len(events)]
  BY ComingType
<1>4. \A j \in 1..Len(wire) : wire[j] = Coming[j + Len(events)] BY <1>3
<1>. QED BY <1>2, <1>3, <1>4 DEF Drops

LEMMA ReturnComing ==
  ASSUME TypeInv, TypeInv', NEW i \in DOMAIN events,
         events' = SubSeq(events, i + 1, Len(events)), wire' = wire
  PROVE  Drops(i) /\ Coming[i] = events[i]
<1>1. /\ i \in 1..Len(events)
      /\ Len(events') = Len(events) - i
      /\ \A j \in 1..Len(events) - i : events'[j] = events[j + i]
  BY Cutting
<1>2. /\ Len(Coming) = Len(events) + Len(wire) /\ Len(events) \in Nat /\ Len(wire) \in Nat
      /\ \A k \in 1..Len(Coming) :
            Coming[k] = IF k <= Len(events) THEN events[k] ELSE wire[k - Len(events)]
  BY ComingType
<1>3. /\ Len(Coming') = Len(events') + Len(wire')
      /\ \A k \in 1..Len(Coming') :
            Coming'[k] = IF k <= Len(events') THEN events'[k] ELSE wire'[k - Len(events')]
      /\ Len(events') \in Nat /\ Len(wire') \in Nat
  BY ComingTypeNext
<1>4. ASSUME NEW j \in 1..Len(Coming') PROVE Coming'[j] = Coming[j + i]
  <2>1. j + i \in 1..Len(Coming) BY <1>1, <1>2, <1>3, SMTT(30)
  <2>2. CASE j <= Len(events')
    <3>1. j <= Len(events) - i /\ j \in Int /\ j >= 1 BY <1>1, <2>2
    <3>2. j \in 1..Len(events) - i /\ j + i <= Len(events)
      <4>1. Len(events) \in Int /\ i \in Int BY <1>1, <1>2
      <4>. QED BY <3>1, <4>1
    <3>. QED BY <1>1, <1>2, <1>3, <2>1, <2>2, <3>2
  <2>3. CASE ~ j <= Len(events')
    <3>1. ~ j + i <= Len(events) /\ j - Len(events') = j + i - Len(events)
      BY <1>1, <1>2, <1>3, <2>3, SMTT(30)
    <3>2. Coming'[j] = wire[j - Len(events')] BY <1>3, <2>3
    <3>3. Coming[j + i] = wire[j + i - Len(events)] BY <1>2, <2>1, <3>1, SMTT(30)
    <3>. QED BY <3>1, <3>2, <3>3, Zenon
  <2>. QED BY <2>2, <2>3
<1>5. i \in 0..Len(Coming) /\ Len(Coming') = Len(Coming) - i BY <1>1, <1>2, <1>3, SMTT(30)
<1>. QED BY <1>1, <1>2, <1>4, <1>5 DEF Drops

-----------------------------------------------------------------------------
(* Frames and acknowledgements.                                            *)

LEMMA RequestItems ==
  ASSUME TypeInv
  PROVE  /\ DOMAIN requests = 1..Len(requests) /\ Len(requests) \in Nat
         /\ \A i \in 1..Len(requests) :
               /\ requests[i] \in Requests
               /\ requests[i].seq \in Int /\ requests[i].end \in BOOLEAN
<1>1. requests \in Seq(Requests) BY DEF TypeInv
<1>2. \A r \in Requests : r.seq \in Int /\ r.end \in BOOLEAN BY DEF Requests, Numbers
<1>. QED BY <1>1, <1>2

LEMMA SendRequests ==
  ASSUME TypeInv, RequestInv, NEW h \in Senders, NEW end \in BOOLEAN,
         Send(h, last + 1, end), last' = IF end THEN last ELSE last + 1
  PROVE  RequestInv'
<1> DEFINE r == [seq |-> last + 1, end |-> end]
           n == Len(requests)
<1>1. /\ DOMAIN requests = 1..n /\ n \in Nat
      /\ \A i \in 1..n : requests[i].seq \in Int /\ requests[i].end \in BOOLEAN
  BY RequestItems
<1>2. /\ requests' = Append(requests, r) /\ service' = service /\ heard' = heard
      /\ requests \in Seq(Requests)
  BY DEF Send, TypeInv
<1>3. r.seq = last + 1 /\ r.end = end OBVIOUS
<1> HIDE DEF r
<1>4. /\ DOMAIN requests' = 1..n + 1 /\ requests'[n + 1] = r
      /\ \A i \in 1..n : requests'[i] = requests[i]
  BY <1>1, <1>2
<1> HIDE DEF n
<1>5. last \in Int /\ heard \in Int BY DEF TypeInv
<1>6. ASSUME NEW i \in 1..n + 1
      PROVE  requests'[i].seq <= IF requests'[i].end THEN last' + 1 ELSE last'
  <2>1. CASE i = n + 1 BY <1>3, <1>4, <1>5, <2>1
  <2>2. CASE i \in 1..n
    <3>1. requests[i].seq <= IF requests[i].end THEN last + 1 ELSE last
      BY <1>1, <2>2 DEF RequestInv
    <3>. QED BY <1>1, <1>4, <1>5, <2>2, <3>1
  <2>. QED BY <1>1, <2>1, <2>2
<1>7. ASSUME NEW i \in 1..n + 1, NEW j \in 1..n + 1, i < j
      PROVE  requests'[i].seq < requests'[j].seq + (IF requests'[i].end THEN 1 ELSE 0)
  <2>1. i \in 1..n BY <1>1, <1>7
  <2>2. CASE j = n + 1
    <3>1. requests[i].seq <= IF requests[i].end THEN last + 1 ELSE last
      BY <1>1, <2>1 DEF RequestInv
    <3>. QED BY <1>1, <1>3, <1>4, <1>5, <2>1, <2>2, <3>1
  <2>3. CASE j \in 1..n
    <3>1. requests[i].seq < requests[j].seq + (IF requests[i].end THEN 1 ELSE 0)
      BY <1>1, <1>7, <2>1, <2>3 DEF RequestInv
    <3>. QED BY <1>4, <2>1, <2>3, <3>1
  <2>. QED BY <1>1, <2>2, <2>3
<1>8. ASSUME service' = "up"
      PROVE  heard' <= last' /\ \A i \in 1..n + 1 : heard' < requests'[i].seq
  <2>1. heard <= last /\ \A i \in 1..n : heard < requests[i].seq
    BY <1>1, <1>2, <1>8 DEF RequestInv
  <2>2. ASSUME NEW i \in 1..n + 1 PROVE heard' < requests'[i].seq
    <3>1. CASE i = n + 1 BY <1>2, <1>3, <1>4, <1>5, <2>1, <3>1
    <3>2. CASE i \in 1..n BY <1>2, <1>4, <2>1, <3>2
    <3>. QED BY <1>1, <3>1, <3>2
  <2>3. last <= last'
    <3>1. CASE end BY <1>5, <3>1
    <3>2. CASE ~end BY <1>5, <3>2
    <3>. QED BY <3>1, <3>2
  <2>4. last' \in Int BY <1>5
  <2>5. heard' <= last' BY <1>2, <1>5, <2>1, <2>3, <2>4
  <2>. QED BY <2>2, <2>5
<1>. QED BY <1>4, <1>6, <1>7, <1>8 DEF RequestInv

LEMMA ServeRequests ==
  ASSUME TypeInv, RequestInv, Serve
  PROVE  /\ RequestInv' /\ heard < heard' /\ heard' = Head(requests).seq
         /\ \E new \in Seq(Events) :
               /\ Grows(new)
               /\ \/ /\ new = <<[type |-> "ack", seq |-> heard']>>
                     /\ finals' = finals
                  \/ /\ new = <<[type |-> "final", seq |-> heard'],
                               [type |-> "ack", seq |-> heard']>>
                     /\ finals' = Append(finals, heard')
<1> DEFINE n == Len(requests)
<1>1. /\ DOMAIN requests = 1..n /\ n \in Nat
      /\ \A i \in 1..n : requests[i].seq \in Int /\ requests[i].end \in BOOLEAN
  BY RequestItems
<1>2. requests \in Seq(Requests) /\ requests # <<>> BY DEF TypeInv, Serve
<1>3. /\ n > 0 /\ requests[1] = Head(requests) /\ requests' = Tail(requests)
      /\ DOMAIN requests' = 1..n - 1
      /\ \A i \in 1..n - 1 : requests'[i] = requests[i + 1]
  BY <1>2 DEF Serve
<1> HIDE DEF n
<1>4. /\ heard' = requests[1].seq /\ service = "up" /\ last' = last
      /\ service' = IF requests[1].end THEN "returned" ELSE "up"
  BY <1>3 DEF Serve, session
<1>5. last \in Int /\ heard \in Int BY DEF TypeInv
<1>6. 1 \in 1..n BY <1>1, <1>3
<1>7. heard < heard' /\ heard' \in Int
  BY <1>1, <1>4, <1>6 DEF RequestInv
<1>8. ASSUME NEW i \in 1..n - 1
      PROVE  /\ requests'[i].seq <= IF requests'[i].end THEN last' + 1 ELSE last'
             /\ \A j \in 1..n - 1 :
                   i < j => requests'[i].seq <
                               requests'[j].seq + (IF requests'[i].end THEN 1 ELSE 0)
             /\ ~requests[1].end => heard' < requests'[i].seq
  <2>1. i + 1 \in 1..n /\ 1 < i + 1 BY <1>1
  <2>2. requests'[i].seq <= IF requests'[i].end THEN last' + 1 ELSE last'
    BY <1>1, <1>3, <1>4, <2>1 DEF RequestInv
  <2>3. ASSUME NEW j \in 1..n - 1, i < j
        PROVE  requests'[i].seq < requests'[j].seq + (IF requests'[i].end THEN 1 ELSE 0)
    <3>1. j + 1 \in 1..n /\ i + 1 < j + 1 BY <1>1, <2>3
    <3>2. requests[i + 1].seq < requests[j + 1].seq + (IF requests[i + 1].end THEN 1 ELSE 0)
      BY <1>1, <2>1, <3>1 DEF RequestInv
    <3>. QED BY <1>3, <3>2
  <2>4. ASSUME ~requests[1].end PROVE heard' < requests'[i].seq
    <3>1. requests[1].seq < requests[i + 1].seq + (IF requests[1].end THEN 1 ELSE 0)
      BY <1>1, <1>6, <2>1 DEF RequestInv
    <3>. QED BY <1>1, <1>3, <1>4, <1>6, <2>1, <2>4, <3>1
  <2>. QED BY <2>2, <2>3, <2>4
<1>9. ASSUME service' = "up" PROVE heard' <= last' /\ ~requests[1].end
  <2>1. ~requests[1].end BY <1>4, <1>9
  <2>2. requests[1].seq <= IF requests[1].end THEN last + 1 ELSE last
    BY <1>1, <1>6 DEF RequestInv
  <2>. QED BY <1>4, <2>1, <2>2
<1>10. RequestInv' BY <1>3, <1>8, <1>9 DEF RequestInv
<1>11. \E new \in Seq(Events) :
         /\ Grows(new)
         /\ \/ /\ new = <<[type |-> "ack", seq |-> heard']>>
               /\ finals' = finals
            \/ /\ new = <<[type |-> "final", seq |-> heard'], [type |-> "ack", seq |-> heard']>>
               /\ finals' = Append(finals, heard')
  <2> DEFINE a == [type |-> "final", seq |-> heard']
             b == [type |-> "ack", seq |-> heard']
  <2>1. PICK sentence \in BOOLEAN :
          /\ wire' = wire \o (IF sentence THEN <<a>> ELSE <<>>) \o <<b>>
          /\ finals' = IF sentence THEN Append(finals, heard') ELSE finals
    BY <1>3, <1>4 DEF Serve
  <2>2. a \in Events /\ b \in Events
    <3>1. heard' \in Numbers BY <1>2, <1>3, <1>4, <1>6, RequestItems DEF Requests
    <3>. QED BY <3>1 DEF Events
  <2> HIDE DEF a, b
  <2>3. wire \in Seq(Events) /\ events' = events BY DEF TypeInv, Serve
  <2>4. <<b>> \in Seq(Events) /\ <<a, b>> \in Seq(Events) BY <2>2
  <2>5. CASE sentence
    <3>1. wire' = wire \o <<a, b>>
      <4>1. wire' = wire \o <<a>> \o <<b>> BY <2>1, <2>5
      <4>2. <<a>> \o <<b>> = <<a, b>> BY TwoEvents
      <4>3. <<a>> \in Seq(Events) /\ <<b>> \in Seq(Events) BY <2>2
      <4>4. wire \o <<a>> \o <<b>> = wire \o (<<a>> \o <<b>>)
        BY <2>3, <4>3, ConcatAssociative
      <4>. QED BY <4>1, <4>2, <4>4
    <3>2. Grows(<<a, b>>) BY <2>3, <2>4, <3>1, WireGrows
    <3>. QED BY <2>1, <2>4, <2>5, <3>2 DEF a, b
  <2>6. CASE ~sentence
    <3>1. wire' = wire \o <<b>> BY <2>1, <2>2, <2>3, <2>6
    <3>2. Grows(<<b>>) BY <2>3, <2>4, <3>1, WireGrows
    <3>. QED BY <2>1, <2>4, <2>6, <3>2 DEF b
  <2>. QED BY <2>5, <2>6
<1>. QED BY <1>3, <1>4, <1>7, <1>10, <1>11

(* The steps, as the events that are coming see them.                      *)
Keeps ==
  /\ Coming' = Coming
  /\ UNCHANGED <<got, service, heard, acked, finals, segments>>

LEMMA QuietSteps ==
  ASSUME TypeInv,
         \/ \E h \in Senders : Accept(h) \/ End(h)
         \/ Close \/ Read \/ UNCHANGED vars
  PROVE  Keeps
<1>1. ASSUME NEW h \in Senders, Accept(h) \/ End(h) PROVE Keeps
  BY <1>1, ComingKept DEF Accept, End, Send, Keeps
<1>2. CASE Close BY <1>2, ComingKept DEF Close, Keeps, session, stream, history
<1>3. CASE Read BY <1>3, ReadComing DEF Read, Keeps, session, history
<1>4. CASE UNCHANGED vars
  BY <1>4, ComingKept DEF vars, Keeps, waiting, session, stream, history
<1>. QED BY <1>1, <1>2, <1>3, <1>4

LEMMA FailGrows ==
  ASSUME TypeInv, Fail
  PROVE  /\ Grows(<<Error>>) /\ service = "up" /\ service' = "failed"
         /\ UNCHANGED <<got, heard, acked, finals, segments, requests, pc, clean>>
<1>1. wire' = wire \o <<Error>> BY DEF Fail, TypeInv
<1>2. <<Error>> \in Seq(Events) BY EventItems
<1>3. Grows(<<Error>>) BY <1>1, <1>2, WireGrows DEF Fail
<1>. QED BY <1>3 DEF Fail, waiting, session, history

(* What Return does.                                                       *)
Returns(h, i) ==
  /\ Decisive(h, Coming[i]) /\ i \in DOMAIN events /\ Coming[i] = events[i]
  /\ \A j \in 1..i - 1 : ~Decisive(h, events[j])
  /\ Drops(i)
  /\ got' = [got EXCEPT ![h] = <<>>]
  /\ \/ /\ Coming[i] = Error
        /\ pc' = [pc EXCEPT ![h] = "gone"]
        /\ UNCHANGED <<segments, closed, acked>>
     \/ /\ Coming[i] # Error
        /\ pc' = [pc EXCEPT ![h] = "idle"]
        /\ segments' = segments \o got[h] \o Transcripts(SubSeq(events, 1, i))
        /\ acked' = IF want[h] > acked THEN want[h] ELSE acked
  /\ UNCHANGED <<want, getters, last>>

LEMMA ReturnStep ==
  ASSUME TypeInv, TypeInv', NEW h \in Senders, Return(h), wire' = wire
  PROVE  \E i \in DOMAIN events : Returns(h, i)
<1>1. PICK i \in DOMAIN events :
        /\ Decisive(h, events[i])
        /\ \A j \in 1..i - 1 : ~Decisive(h, events[j])
        /\ events' = SubSeq(events, i + 1, Len(events))
        /\ got' = [got EXCEPT ![h] = <<>>]
        /\ \/ /\ events[i] = Error
              /\ pc' = [pc EXCEPT ![h] = "gone"]
              /\ UNCHANGED <<segments, closed, acked>>
           \/ /\ events[i] # Error
              /\ pc' = [pc EXCEPT ![h] = "idle"]
              /\ segments' = segments \o got[h] \o Transcripts(SubSeq(events, 1, i))
              /\ acked' = IF want[h] > acked THEN want[h] ELSE acked
        /\ UNCHANGED <<want, getters, last>>
  BY DEF Return
<1>2. Drops(i) /\ Coming[i] = events[i] BY <1>1, ReturnComing
<1>3. Returns(h, i) BY <1>1, <1>2 DEF Returns
<1>. QED BY <1>3

LEMMA GetSteps ==
  ASSUME TypeInv, TypeInv', Get
  PROVE  LET h == Head(ready) IN
         /\ h \in Senders /\ ready # <<>> /\ ready' = Tail(ready)
         /\ UNCHANGED <<requests, service, wire, heard, finals, clean>>
         /\ \/ Sleep(h) /\ Drops(Len(events)) /\ Coming' = wire
            \/ \E i \in DOMAIN events : Returns(h, i)
<1> DEFINE h == Head(ready)
<1>1. /\ h \in Senders /\ ready # <<>> /\ ready' = Tail(ready)
      /\ UNCHANGED <<requests, service, wire, heard, finals, clean>>
      /\ Sleep(h) \/ Return(h)
  BY HeadTailProperties DEF Get, TypeInv
<1> HIDE DEF h
<1>2. CASE Sleep(h)
  <2>1. Drops(Len(events)) /\ Coming' = wire BY <1>1, <1>2, SleepComing DEF Sleep
  <2>. QED BY <1>1, <1>2, <2>1 DEF h
<1>3. CASE Return(h)
  <2>1. \E i \in DOMAIN events : Returns(h, i) BY <1>1, <1>3, ReturnStep
  <2>. QED BY <1>1, <2>1 DEF h
<1>. QED BY <1>1, <1>2, <1>3

(* Properties of every event that is coming survive when some are taken.   *)
LEMMA DropsItems ==
  ASSUME TypeInv, NEW k, Drops(k)
  PROVE  /\ k \in Nat /\ Len(Coming) \in Nat /\ DOMAIN Coming' = 1..Len(Coming')
         /\ Len(Coming') = Len(Coming) - k
         /\ \A j \in 1..Len(Coming') :
               j + k \in 1..Len(Coming) /\ Coming'[j] = Coming[j + k]
<1>1. Len(Coming) \in Nat BY ComingType
<1>2. k \in Nat /\ Len(Coming') = Len(Coming) - k BY <1>1 DEF Drops
<1>3. TRUE OBVIOUS
<1>. QED BY <1>1, <1>2 DEF Drops

-----------------------------------------------------------------------------
(* What has been told is true: HeardInv and ErrorInv.                      *)

LEMMA HeardStep ==
  ASSUME TypeInv, TypeInv', RequestInv, HeardInv, [Next]_vars
  PROVE  HeardInv'
<1>1. /\ \A i \in 1..Len(Coming) : Coming[i].seq <= heard
      /\ acked <= heard /\ heard \in Int /\ acked \in Int
      /\ DOMAIN Coming = 1..Len(Coming) /\ Len(Coming) \in Nat
      /\ \A i \in 1..Len(Coming) : Coming[i].seq \in Int
  <2>1. \A i \in 1..Len(Coming) : Coming[i].seq \in Int BY ComingType, EventItems
  <2>2. heard \in Int /\ acked \in Int BY DEF TypeInv
  <2>. QED BY <2>1, <2>2, ComingType DEF HeardInv, AckedIsHeard
<1>2. CASE \/ \E h \in Senders : Accept(h) \/ End(h)
           \/ Close \/ Read \/ UNCHANGED vars
  BY <1>2, QuietSteps DEF Keeps, HeardInv, AckedIsHeard
<1>3. ASSUME NEW new \in Seq(Events), Grows(new), heard' \in Int, heard <= heard',
             \A j \in 1..Len(new) : new[j].seq <= heard', acked' = acked
      PROVE  HeardInv'
  <2>1. /\ Len(Coming') = Len(Coming) + Len(new) /\ Len(new) \in Nat
        /\ DOMAIN Coming' = 1..Len(Coming')
    BY <1>3, ComingTypeNext DEF Grows
  <2>2. ASSUME NEW i \in 1..Len(Coming') PROVE Coming'[i].seq <= heard'
    <3>1. CASE i <= Len(Coming)
      <4>1. i \in 1..Len(Coming) /\ Coming'[i] = Coming[i] BY <1>1, <1>3, <2>1, <3>1 DEF Grows
      <4>2. Coming[i].seq <= heard /\ Coming[i].seq \in Int BY <1>1, <4>1
      <4>. QED BY <1>1, <1>3, <4>1, <4>2
    <3>2. CASE Len(Coming) < i
      <4>1. i - Len(Coming) \in 1..Len(new) BY <1>1, <2>1, <3>2
      <4>. QED BY <1>3, <3>2, <4>1 DEF Grows
    <3>. QED BY <1>1, <2>1, <3>1, <3>2
  <2>3. acked' <= heard' BY <1>1, <1>3
  <2>. QED BY <2>1, <2>2, <2>3 DEF HeardInv, AckedIsHeard
<1>4. CASE Serve
  <2>1. heard < heard' /\ heard' \in Int /\ acked' = acked
    <3>1. heard' \in Int BY DEF TypeInv
    <3>2. acked' = acked BY <1>4 DEF Serve
    <3>. QED BY <1>4, <3>1, <3>2, ServeRequests
  <2>2. PICK new \in Seq(Events) :
          /\ Grows(new)
          /\ \/ new = <<[type |-> "ack", seq |-> heard']>>
             \/ new = <<[type |-> "final", seq |-> heard'], [type |-> "ack", seq |-> heard']>>
    BY <1>4, ServeRequests
  <2>3. \A j \in 1..Len(new) : new[j].seq = heard' BY <2>2
  <2>4. heard <= heard' /\ heard' <= heard' BY <1>1, <2>1
  <2>5. \A j \in 1..Len(new) : new[j].seq <= heard' BY <2>3, <2>4
  <2>. QED BY <1>3, <2>1, <2>2, <2>4, <2>5
<1>5. CASE Fail
  <2>1. <<Error>> \in Seq(Events) /\ \A j \in 1..Len(<<Error>>) : <<Error>>[j].seq = -1
    BY EventItems
  <2>2. Grows(<<Error>>) /\ heard' = heard /\ acked' = acked BY <1>5, FailGrows
  <2>3. -1 <= heard BY DEF TypeInv
  <2>4. heard' \in Int /\ heard <= heard' /\ -1 <= heard' BY <1>1, <2>2, <2>3
  <2>5. \A j \in 1..Len(<<Error>>) : <<Error>>[j].seq <= heard' BY <2>1, <2>4
  <2>. QED BY <1>3, <2>1, <2>2, <2>4, <2>5
<1>6. CASE Get
  <2> DEFINE h == Head(ready)
  <2>1. /\ h \in Senders /\ heard' = heard
        /\ \/ Sleep(h) /\ Drops(Len(events)) /\ Coming' = wire
           \/ \E i \in DOMAIN events : Returns(h, i)
    BY <1>6, GetSteps
  <2> HIDE DEF h
  <2>2. ASSUME NEW k, Drops(k) PROVE \A i \in DOMAIN Coming' : Coming'[i].seq <= heard'
    BY <1>1, <2>1, <2>2, DropsItems
  <2>3. CASE Sleep(h) /\ Drops(Len(events))
    <3>1. acked' = acked BY <2>3 DEF Sleep
    <3>. QED BY <1>1, <2>1, <2>2, <2>3, <3>1 DEF HeardInv, AckedIsHeard
  <2>4. ASSUME NEW i \in DOMAIN events, Returns(h, i) PROVE HeardInv'
    <3>1. Drops(i) BY <2>4 DEF Returns
    <3>2. acked' <= heard'
      <4>1. CASE acked' = acked BY <1>1, <2>1, <4>1
      <4>2. CASE acked' # acked
        <5>1. acked' = want[h] /\ Coming[i] # Error /\ Decisive(h, Coming[i])
              /\ Coming[i] = events[i]
          BY <2>4, <4>2 DEF Returns
        <5>2. Coming[i].seq >= want[h] BY <5>1 DEF Decisive
        <5>3. i \in 1..Len(Coming) BY ComingType
        <5>4. want[h] \in Int BY <2>1 DEF TypeInv
        <5>. QED BY <1>1, <2>1, <5>1, <5>2, <5>3, <5>4
      <4>. QED BY <4>1, <4>2
    <3>. QED BY <2>2, <3>1, <3>2 DEF HeardInv, AckedIsHeard
  <2>. QED BY <2>1, <2>3, <2>4
<1>. QED BY <1>2, <1>4, <1>5, <1>6 DEF Next

LEMMA ErrorStep ==
  ASSUME TypeInv, TypeInv', RequestInv, ErrorInv, [Next]_vars
  PROVE  ErrorInv'
<1>1. DOMAIN Coming = 1..Len(Coming) /\ Len(Coming) \in Nat BY ComingType
<1>2. CASE \/ \E h \in Senders : Accept(h) \/ End(h)
           \/ Close \/ Read \/ UNCHANGED vars
  BY <1>2, QuietSteps DEF Keeps, ErrorInv
<1>3. ASSUME service = "up" PROVE \A i \in 1..Len(Coming) : Coming[i] # Error
  BY <1>1, <1>3 DEF ErrorInv
<1>4. CASE Serve
  <2>1. service = "up" BY <1>4 DEF Serve
  <2>2. PICK new \in Seq(Events) :
          /\ Grows(new)
          /\ \/ new = <<[type |-> "ack", seq |-> heard']>>
             \/ new = <<[type |-> "final", seq |-> heard'], [type |-> "ack", seq |-> heard']>>
    BY <1>4, ServeRequests
  <2>3. \A j \in 1..Len(new) : new[j].type # "error" BY <2>2
  <2>4. \A j \in 1..Len(new) : new[j] # Error BY <2>3, EventItems
  <2>5. \A i \in 1..Len(Coming') : Coming'[i] # Error
    <3>1. /\ Len(Coming') = Len(Coming) + Len(new) /\ Len(new) \in Nat
          /\ \A j \in 1..Len(Coming) : Coming'[j] = Coming[j]
          /\ \A j \in 1..Len(Coming') : Len(Coming) < j => Coming'[j] = new[j - Len(Coming)]
      BY <2>2 DEF Grows
    <3>. QED BY <1>1, <1>3, <2>1, <2>4, <3>1
  <2>6. DOMAIN Coming' = 1..Len(Coming') BY ComingTypeNext
  <2>. QED BY <2>5, <2>6 DEF ErrorInv
<1>5. CASE Fail
  <2>1. /\ Grows(<<Error>>) /\ service = "up" /\ service' = "failed"
    BY <1>5, FailGrows
  <2>2. /\ Len(Coming') = Len(Coming) + 1
        /\ \A j \in 1..Len(Coming) : Coming'[j] = Coming[j]
    BY <2>1 DEF Grows
  <2>3. DOMAIN Coming' = 1..Len(Coming') BY ComingTypeNext
  <2>4. ASSUME NEW i \in DOMAIN Coming', Coming'[i] = Error PROVE i = Len(Coming')
    <3>1. CASE i \in 1..Len(Coming) BY <1>3, <2>1, <2>2, <2>4, <3>1
    <3>. QED BY <1>1, <2>2, <2>3, <3>1
  <2>. QED BY <2>1, <2>4 DEF ErrorInv
<1>6. CASE Get
  <2>1. service' = service /\ \E k : Drops(k) BY <1>6, GetSteps DEF Returns
  <2>2. PICK k : Drops(k) BY <2>1
  <2>3. ASSUME NEW i \in DOMAIN Coming', Coming'[i] = Error
        PROVE  service' = "failed" /\ i = Len(Coming')
    <3>1. /\ i + k \in 1..Len(Coming) /\ Coming[i + k] = Error /\ k \in Nat
          /\ Len(Coming') = Len(Coming) - k /\ i \in Int
      <4>1. /\ k \in Nat /\ Len(Coming) \in Nat /\ DOMAIN Coming' = 1..Len(Coming')
            /\ Len(Coming') = Len(Coming) - k
            /\ \A j \in 1..Len(Coming') :
                  j + k \in 1..Len(Coming) /\ Coming'[j] = Coming[j + k]
        BY <2>2, DropsItems
      <4>. QED BY <2>3, <4>1
    <3>2. service = "failed" /\ i + k = Len(Coming) BY <1>1, <3>1 DEF ErrorInv
    <3>. QED BY <1>1, <2>1, <3>1, <3>2
  <2>. QED BY <2>3 DEF ErrorInv
<1>. QED BY <1>2, <1>4, <1>5, <1>6 DEF Next

-----------------------------------------------------------------------------
(* Two lines of senders, r and g, in which each member of S has one place. *)
Split(r, g, S) ==
  /\ \A i \in 1..Len(r) : r[i] \in S
  /\ \A i \in 1..Len(g) : g[i] \in S
  /\ \A h \in S : (\E i \in 1..Len(r) : r[i] = h) \/ (\E i \in 1..Len(g) : g[i] = h)
  /\ \A i, j \in 1..Len(r) : r[i] = r[j] => i = j
  /\ \A i, j \in 1..Len(g) : g[i] = g[j] => i = j
  /\ \A i \in 1..Len(r), j \in 1..Len(g) : r[i] # g[j]

LEMMA SplitSwaps ==
  ASSUME NEW r, NEW g, NEW S, Split(r, g, S)
  PROVE  Split(g, r, S)
BY DEF Split

LEMMA SplitEnters ==
  ASSUME NEW r \in Seq(Senders), NEW g \in Seq(Senders), NEW S, Split(r, g, S),
         NEW h \in Senders, h \notin S
  PROVE  Split(Append(r, h), g, S \cup {h})
<1> DEFINE q == Append(r, h)
<1>1. /\ Len(q) = Len(r) + 1 /\ Len(r) \in Nat /\ Len(g) \in Nat /\ q[Len(r) + 1] = h
      /\ \A i \in 1..Len(r) : q[i] = r[i]
  OBVIOUS
<1> HIDE DEF q
<1>2. \A i \in 1..Len(q) : i = Len(r) + 1 \/ i \in 1..Len(r) BY <1>1
<1>3. \A i \in 1..Len(q) : q[i] \in S \cup {h} BY <1>1, <1>2 DEF Split
<1>4. \A i \in 1..Len(g) : g[i] \in S \cup {h} /\ g[i] # h BY DEF Split
<1>5. \A i \in 1..Len(r) : r[i] # h BY DEF Split
<1>6. \A i, j \in 1..Len(q) : q[i] = q[j] => i = j
  <2>1. \A i, j \in 1..Len(r) : q[i] = q[j] => i = j BY <1>1 DEF Split
  <2>2. \A i \in 1..Len(r) : q[i] # h BY <1>1, <1>5
  <2>. QED BY <1>1, <1>2, <2>1, <2>2
<1>7. \A i \in 1..Len(q), j \in 1..Len(g) : q[i] # g[j] BY <1>1, <1>2, <1>4 DEF Split
<1>8. ASSUME NEW k \in S \cup {h}
      PROVE  (\E i \in 1..Len(q) : q[i] = k) \/ (\E i \in 1..Len(g) : g[i] = k)
  <2>1. Len(r) + 1 \in 1..Len(q) /\ \A i \in 1..Len(r) : i \in 1..Len(q) BY <1>1
  <2>2. CASE k = h BY <1>1, <2>1, <2>2
  <2>3. CASE k \in S BY <1>1, <2>1, <2>3 DEF Split
  <2>. QED BY <2>2, <2>3
<1>9. \A i, j \in 1..Len(g) : g[i] = g[j] => i = j BY DEF Split
<1>. QED BY <1>3, <1>4, <1>6, <1>7, <1>8, <1>9 DEF Split, q

LEMMA SplitLeaves ==
  ASSUME NEW r \in Seq(Senders), NEW g \in Seq(Senders), NEW S, Split(r, g, S), r # <<>>
  PROVE  /\ Head(r) \in S /\ Head(r) \in Senders
         /\ Tail(r) \in Seq(Senders) /\ Split(Tail(r), g, S \ {Head(r)})
<1> DEFINE q == Tail(r)
           h == Head(r)
<1>1. /\ q \in Seq(Senders) /\ Len(q) = Len(r) - 1 /\ Len(r) \in Nat /\ Len(r) > 0
      /\ h = r[1] /\ \A i \in 1..Len(q) : q[i] = r[i + 1]
  OBVIOUS
<1> HIDE DEF q, h
<1>2. 1 \in 1..Len(r) /\ \A i \in 1..Len(q) : i + 1 \in 1..Len(r) /\ i + 1 # 1 BY <1>1
<1>3. \A i \in 1..Len(q) : q[i] \in S \ {h} BY <1>1, <1>2 DEF Split
<1>4. \A i \in 1..Len(g) : g[i] \in S \ {h} BY <1>1, <1>2 DEF Split
<1>5. \A i, j \in 1..Len(q) : q[i] = q[j] => i = j
  <2>1. \A i, j \in 1..Len(q) : q[i] = q[j] => i + 1 = j + 1 BY <1>1, <1>2 DEF Split
  <2>. QED BY <2>1
<1>6. \A i \in 1..Len(q), j \in 1..Len(g) : q[i] # g[j] BY <1>1, <1>2 DEF Split
<1>7. ASSUME NEW k \in S \ {h}
      PROVE  (\E i \in 1..Len(q) : q[i] = k) \/ (\E i \in 1..Len(g) : g[i] = k)
  <2>1. ASSUME NEW i \in 1..Len(r), r[i] = k PROVE \E j \in 1..Len(q) : q[j] = k
    <3>1. i # 1 BY <1>1, <2>1
    <3>2. i - 1 \in 1..Len(q) /\ i - 1 + 1 = i BY <1>1, <3>1
    <3>. QED BY <1>1, <2>1, <3>2
  <2>. QED BY <2>1 DEF Split
<1>8. \A i, j \in 1..Len(g) : g[i] = g[j] => i = j BY DEF Split
<1>9. h \in S /\ h \in Senders BY <1>1, <1>2 DEF Split
<1>. QED BY <1>1, <1>3, <1>4, <1>5, <1>6, <1>7, <1>8, <1>9 DEF Split, q, h

LEMMA SplitMoves ==
  ASSUME NEW r \in Seq(Senders), NEW g \in Seq(Senders), NEW S, Split(r, g, S), r # <<>>
  PROVE  Split(Tail(r), Append(g, Head(r)), S)
<1> DEFINE h == Head(r)
<1>1. /\ h \in S /\ h \in Senders /\ Tail(r) \in Seq(Senders)
      /\ Split(Tail(r), g, S \ {h})
  BY SplitLeaves
<1> HIDE DEF h
<1>2. Split(g, Tail(r), S \ {h}) BY <1>1, SplitSwaps
<1>3. h \notin S \ {h} /\ (S \ {h}) \cup {h} = S BY <1>1
<1>4. Split(Append(g, h), Tail(r), (S \ {h}) \cup {h}) BY <1>1, <1>2, <1>3, SplitEnters
<1>. QED BY <1>3, <1>4, SplitSwaps DEF h

LEMMA SplitWhole ==
  ASSUME NEW r \in Seq(Senders), NEW g \in Seq(Senders), NEW S
  PROVE  Split(r, g, S) <=> ToSet(r \o g) = S /\ IsInjective(r \o g)
<1> DEFINE q == r \o g
           m == Len(r)
           n == Len(g)
<1>1. /\ m \in Nat /\ n \in Nat /\ DOMAIN q = 1..m + n
      /\ \A i \in 1..m : q[i] = r[i]
      /\ \A i \in 1..n : q[m + i] = g[i]
  OBVIOUS
<1> HIDE DEF q, m, n
<1>2. /\ \A i \in 1..m : i \in 1..m + n
      /\ \A i \in 1..n : m + i \in 1..m + n
      /\ \A i \in 1..m + n : i \in 1..m \/ (i - m \in 1..n /\ m + (i - m) = i)
  BY <1>1
<1>3. ASSUME Split(r, g, S) PROVE ToSet(q) = S /\ IsInjective(q)
  <2>1. \A i \in 1..m + n : q[i] \in S
    <3> SUFFICES ASSUME NEW i \in 1..m + n PROVE q[i] \in S OBVIOUS
    <3>1. CASE i \in 1..m BY <1>1, <1>3, <3>1 DEF Split, m
    <3>2. CASE i - m \in 1..n /\ m + (i - m) = i
      <4>1. q[i] = g[i - m] BY <1>1, <3>2
      <4>. QED BY <1>3, <3>2, <4>1 DEF Split, n
    <3>. QED BY <1>2, <3>1, <3>2
  <2>2. ASSUME NEW h \in S PROVE \E i \in 1..m + n : q[i] = h
    <3>1. (\E i \in 1..m : r[i] = h) \/ (\E i \in 1..n : g[i] = h)
      BY <1>3 DEF Split, m, n
    <3>2. ASSUME NEW i \in 1..n, g[i] = h PROVE m + i \in 1..m + n /\ q[m + i] = h
      BY <1>1, <1>2, <3>2
    <3>. QED BY <1>1, <1>2, <3>1, <3>2
  <2>3. ASSUME NEW i \in 1..m + n, NEW j \in 1..m + n, q[i] = q[j] PROVE i = j
    <3>1. CASE i \in 1..m /\ j \in 1..m BY <1>1, <1>3, <2>3, <3>1 DEF Split, m
    <3>2. CASE i \in 1..m /\ j - m \in 1..n /\ m + (j - m) = j
      <4>1. q[j] = g[j - m] /\ q[i] = r[i] BY <1>1, <3>2
      <4>2. r[i] # g[j - m] BY <1>3, <3>2 DEF Split, m, n
      <4>. QED BY <2>3, <4>1, <4>2
    <3>3. CASE j \in 1..m /\ i - m \in 1..n /\ m + (i - m) = i
      <4>1. q[i] = g[i - m] /\ q[j] = r[j] BY <1>1, <3>3
      <4>2. r[j] # g[i - m] BY <1>3, <3>3 DEF Split, m, n
      <4>. QED BY <2>3, <4>1, <4>2
    <3>4. CASE i - m \in 1..n /\ m + (i - m) = i /\ j - m \in 1..n /\ m + (j - m) = j
      <4>1. q[i] = g[i - m] /\ q[j] = g[j - m] BY <1>1, <3>4
      <4>2. i - m = j - m BY <1>3, <2>3, <3>4, <4>1 DEF Split, n
      <4>. QED BY <3>4, <4>2
    <3>. QED BY <1>2, <3>1, <3>2, <3>3, <3>4
  <2>4. IsInjective(q) BY <1>1, <2>3 DEF IsInjective
  <2>5. ToSet(q) \subseteq S BY <1>1, <2>1 DEF ToSet
  <2>6. S \subseteq ToSet(q) BY <1>1, <2>2 DEF ToSet
  <2>. QED BY <2>4, <2>5, <2>6
<1>4. ASSUME ToSet(q) = S, IsInjective(q) PROVE Split(r, g, S)
  <2>1. \A i \in 1..m + n : q[i] \in S BY <1>1, <1>4 DEF ToSet
  <2>2. \A h \in S : \E i \in 1..m + n : q[i] = h BY <1>1, <1>4 DEF ToSet
  <2>3. \A i, j \in 1..m + n : q[i] = q[j] => i = j BY <1>1, <1>4 DEF IsInjective
  <2>4. \A i \in 1..m : r[i] \in S BY <1>1, <1>2, <2>1
  <2>5. ASSUME NEW i \in 1..n PROVE g[i] \in S
    <3>1. q[m + i] \in S BY <1>2, <2>1
    <3>. QED BY <1>1, <3>1
  <2>6. ASSUME NEW h \in S
        PROVE  (\E i \in 1..m : r[i] = h) \/ (\E i \in 1..n : g[i] = h)
    <3>1. PICK i \in 1..m + n : q[i] = h BY <2>2
    <3>2. CASE i \in 1..m BY <1>1, <3>1, <3>2
    <3>3. CASE i - m \in 1..n /\ m + (i - m) = i
      <4>1. q[m + (i - m)] = g[i - m] BY <1>1, <3>3
      <4>. QED BY <3>1, <3>3, <4>1
    <3>. QED BY <1>2, <3>2, <3>3
  <2>7. \A i, j \in 1..m : r[i] = r[j] => i = j BY <1>1, <1>2, <2>3
  <2>8. ASSUME NEW i \in 1..n, NEW j \in 1..n, g[i] = g[j] PROVE i = j
    <3>1. q[m + i] = q[m + j] BY <1>1, <2>8
    <3>2. m + i = m + j BY <1>2, <2>3, <3>1
    <3>. QED BY <1>1, <3>2
  <2>9. ASSUME NEW i \in 1..m, NEW j \in 1..n PROVE r[i] # g[j]
    <3>1. q[i] = r[i] /\ q[m + j] = g[j] BY <1>1
    <3>2. i # m + j BY <1>1
    <3>. QED BY <1>2, <2>3, <3>1, <3>2
  <2>. QED BY <2>4, <2>5, <2>6, <2>7, <2>8, <2>9 DEF Split, m, n
<1>. QED BY <1>3, <1>4 DEF q

BusyOnes == {h \in Senders : Busy(h)}

LEMMA WaitSplit ==
  ASSUME TypeInv
  PROVE  WaitInv <=> /\ Split(ready, getters, BusyOnes)
                     /\ \A h \in Senders : ~Busy(h) => got[h] = <<>>
BY SplitWhole DEF TypeInv, WaitInv, BusyOnes

LEMMA WaitSplitNext ==
  ASSUME TypeInv', Split(ready', getters', BusyOnes'),
         \A h \in Senders : ~Busy(h)' => got'[h] = <<>>
  PROVE  WaitInv'
<1>1. ready' \in Seq(Senders) /\ getters' \in Seq(Senders) BY DEF TypeInv
<1>2. BusyOnes' = {h \in Senders : Busy(h)'} BY DEF BusyOnes
<1>3. /\ ToSet(ready' \o getters') = {h \in Senders : Busy(h)'}
      /\ IsInjective(ready' \o getters')
  BY <1>1, <1>2, SplitWhole
<1>. QED BY <1>3 DEF WaitInv, Busy

(* Who begins to wait joins the getters, who has its answer leaves them.   *)
LEMMA WaitStep ==
  ASSUME TypeInv, TypeInv', WaitInv, [Next]_vars
  PROVE  WaitInv'
<1>1. /\ Split(ready, getters, BusyOnes)
      /\ \A h \in Senders : ~Busy(h) => got[h] = <<>>
      /\ ready \in Seq(Senders) /\ getters \in Seq(Senders)
      /\ got \in [Senders -> Seq(Numbers)]
      /\ pc \in [Senders -> {"idle", "sending", "ending", "gone"}]
  <2>1. /\ ready \in Seq(Senders) /\ getters \in Seq(Senders)
        /\ got \in [Senders -> Seq(Numbers)]
        /\ pc \in [Senders -> {"idle", "sending", "ending", "gone"}]
    BY DEF TypeInv
  <2>. QED BY <2>1, WaitSplit
<1>2. ASSUME NEW h \in Senders, Accept(h) \/ End(h) PROVE WaitInv'
  <2>1. /\ pc[h] = "idle" /\ got' = got /\ getters' = getters
        /\ ready' = Append(ready, h)
        /\ pc' = [pc EXCEPT ![h] = "ending"] \/ pc' = [pc EXCEPT ![h] = "sending"]
    BY <1>2 DEF Accept, End, Send
  <2>2. h \notin BusyOnes /\ BusyOnes' = BusyOnes \cup {h}
    BY <1>1, <2>1 DEF BusyOnes, Busy
  <2>3. Split(ready', getters', BusyOnes') BY <1>1, <2>1, <2>2, SplitEnters
  <2>4. \A k \in Senders : ~Busy(k)' => got'[k] = <<>>
    BY <1>1, <2>1 DEF Busy
  <2>. QED BY <2>3, <2>4, WaitSplitNext
<1>3. CASE Close
  <2>1. pc' = [pc EXCEPT ![Manager] = "gone"] /\ pc[Manager] = "idle"
        /\ UNCHANGED <<ready, getters, got>>
    BY <1>3 DEF Close
  <2>2. \A k \in Senders : Busy(k)' <=> Busy(k) BY <1>1, <2>1 DEF Busy, Senders
  <2>3. BusyOnes' = BusyOnes BY <2>2 DEF BusyOnes
  <2>. QED BY <1>1, <2>1, <2>2, <2>3, WaitSplitNext
<1>4. CASE Serve \/ Fail \/ UNCHANGED vars
  <2>1. UNCHANGED waiting BY <1>4 DEF Serve, Fail, vars
  <2>. QED BY <2>1 DEF WaitInv, waiting, Busy
<1>5. CASE Read
  <2>1. /\ pc' = pc /\ got' = got
        /\ \/ getters = <<>> /\ ready' = ready /\ getters' = getters
           \/ /\ getters # <<>> /\ ready' = Append(ready, Head(getters))
              /\ getters' = Tail(getters)
    BY <1>5 DEF Read
  <2>2. \A k \in Senders : Busy(k)' <=> Busy(k) BY <2>1 DEF Busy
  <2>3. BusyOnes' = BusyOnes BY <2>2 DEF BusyOnes
  <2>4. CASE ready' = ready /\ getters' = getters
    BY <1>1, <2>1, <2>2, <2>3, <2>4, WaitSplitNext
  <2>5. CASE getters # <<>> /\ ready' = Append(ready, Head(getters)) /\ getters' = Tail(getters)
    <3>1. Split(getters, ready, BusyOnes) BY <1>1, SplitSwaps
    <3>2. Split(Tail(getters), Append(ready, Head(getters)), BusyOnes)
      BY <1>1, <2>5, <3>1, SplitMoves
    <3>3. Split(ready', getters', BusyOnes') BY <2>3, <2>5, <3>2, SplitSwaps
    <3>. QED BY <1>1, <2>1, <2>2, <3>3, WaitSplitNext
  <2>. QED BY <2>1, <2>4, <2>5
<1>6. CASE Get
  <2> DEFINE h == Head(ready)
  <2>1. /\ h \in Senders /\ ready # <<>> /\ ready' = Tail(ready)
        /\ Sleep(h) \/ \E i \in DOMAIN events : Returns(h, i)
    BY <1>6, GetSteps
  <2>2. h \in BusyOnes /\ Split(Tail(ready), getters, BusyOnes \ {h})
        /\ Split(Tail(ready), Append(getters, h), BusyOnes)
    BY <1>1, <2>1, SplitLeaves, SplitMoves
  <2> HIDE DEF h
  <2>3. CASE Sleep(h)
    <3>1. /\ pc' = pc /\ getters' = Append(getters, h)
          /\ got' = [got EXCEPT ![h] = @ \o Transcripts(events)]
      BY <2>3 DEF Sleep
    <3>2. \A k \in Senders : Busy(k)' <=> Busy(k) BY <3>1 DEF Busy
    <3>3. BusyOnes' = BusyOnes BY <3>2 DEF BusyOnes
    <3>4. \A k \in Senders : ~Busy(k)' => got'[k] = <<>>
      BY <1>1, <2>2, <3>1, <3>2 DEF BusyOnes
    <3>. QED BY <2>1, <2>2, <3>1, <3>3, <3>4, WaitSplitNext
  <2>4. ASSUME NEW i \in DOMAIN events, Returns(h, i) PROVE WaitInv'
    <3>1. /\ getters' = getters /\ got' = [got EXCEPT ![h] = <<>>]
          /\ pc' = [pc EXCEPT ![h] = "gone"] \/ pc' = [pc EXCEPT ![h] = "idle"]
      BY <2>4 DEF Returns
    <3>2. \A k \in Senders : Busy(k)' <=> Busy(k) /\ k # h BY <1>1, <3>1 DEF Busy
    <3>3. BusyOnes' = BusyOnes \ {h} BY <3>2 DEF BusyOnes
    <3>4. \A k \in Senders : ~Busy(k)' => got'[k] = <<>> BY <1>1, <3>1, <3>2
    <3>. QED BY <2>1, <2>2, <3>1, <3>3, <3>4, WaitSplitNext
  <2>. QED BY <2>1, <2>3, <2>4
<1>. QED BY <1>2, <1>3, <1>4, <1>5, <1>6 DEF Next

-----------------------------------------------------------------------------
(* Transcripts are received in order.                                      *)

(* What a sender receives that takes all events.                           *)
LEMMA SleepOrder ==
  ASSUME TypeInv, TypeInv', OrderInv, HeardInv, NEW h \in Senders, Sleep(h),
         NEW k \in Senders, heard' = heard, Drops(Len(events)), Coming' = wire
  PROVE  /\ Ascends(got'[k])
         /\ \A n \in DOMAIN got'[k] :
               /\ got'[k][n] <= heard'
               /\ \A i \in DOMAIN Coming' : FinalAt(i)' => got'[k][n] < Coming'[i].seq
<1> DEFINE s == got[k]
           t == Transcripts(events)
           m == Len(events)
<1>1. /\ s \in Seq(Numbers) /\ t \in Seq(Numbers) /\ Len(s) \in Nat /\ Len(t) \in Nat
      /\ DOMAIN s = 1..Len(s) /\ DOMAIN t = 1..Len(t)
  <2>1. events \in Seq(Events) /\ s \in Seq(Numbers) BY DEF TypeInv
  <2>2. t \in Seq(Numbers) BY <2>1, TranscriptsProperties
  <2>. QED BY <2>1, <2>2
<1>2. /\ m \in Nat /\ Len(Coming) \in Nat /\ DOMAIN Coming' = 1..Len(Coming')
      /\ DOMAIN Coming = 1..Len(Coming) /\ m <= Len(Coming)
      /\ \A i \in 1..m : i \in 1..Len(Coming) /\ Coming[i] = events[i]
      /\ \A i \in 1..Len(Coming') : /\ i + m \in 1..Len(Coming) /\ Coming'[i] = Coming[i + m]
                                    /\ m < i + m /\ (FinalAt(i)' <=> FinalAt(i + m))
  <2>1. /\ Len(Coming) = m + Len(wire) /\ m \in Nat /\ Len(wire) \in Nat
        /\ DOMAIN Coming = 1..Len(Coming)
        /\ \A i \in 1..Len(Coming) :
             Coming[i] = IF i <= m THEN events[i] ELSE wire[i - m]
    BY ComingType
  <2>2. /\ DOMAIN Coming' = 1..Len(Coming')
        /\ \A i \in 1..Len(Coming') : i + m \in 1..Len(Coming) /\ Coming'[i] = Coming[i + m]
    BY DropsItems
  <2> HIDE DEF m
  <2>3. \A i \in 1..Len(Coming') : m < i + m /\ (FinalAt(i)' <=> FinalAt(i + m))
    BY <2>1, <2>2 DEF FinalAt
  <2>. QED BY <2>1, <2>2, <2>3
<1>3. PICK f \in [1..Len(t) -> FinalsOf(events)] :
        /\ \A n \in 1..Len(t) : t[n] = events[f[n]].seq
        /\ \A l, n \in 1..Len(t) : l < n => f[l] < f[n]
  <2>1. events \in Seq(Events) BY DEF TypeInv
  <2>. QED BY <2>1, TranscriptsProperties
<1> HIDE DEF t, m
<1>4. ASSUME NEW n \in 1..Len(t)
      PROVE  f[n] \in 1..m /\ FinalAt(f[n]) /\ t[n] = Coming[f[n]].seq /\ t[n] \in Int
  <2>1. f[n] \in 1..m /\ events[f[n]].type = "final" BY <1>3 DEF FinalsOf, m
  <2>2. t[n] \in Int BY <1>1 DEF Numbers
  <2>. QED BY <1>2, <1>3, <2>1, <2>2 DEF FinalAt
<1>5. /\ \A i, j \in 1..Len(Coming) :
            FinalAt(i) /\ FinalAt(j) /\ i < j => Coming[i].seq < Coming[j].seq
      /\ \A i \in 1..Len(Coming) : Coming[i].seq <= heard
      /\ \A i, j \in 1..Len(s) : i < j => s[i] < s[j]
      /\ \A n \in 1..Len(s) : s[n] <= heard
      /\ \A n \in 1..Len(s), i \in 1..Len(Coming) : FinalAt(i) => s[n] < Coming[i].seq
  BY <1>1, <1>2 DEF OrderInv, HeardInv, Ascends
<1> HIDE DEF s
<1>6. /\ \A i, j \in 1..Len(t) : i < j => t[i] < t[j]
      /\ \A n \in 1..Len(t) : t[n] <= heard
      /\ \A n \in 1..Len(t), i \in 1..Len(Coming') : FinalAt(i)' => t[n] < Coming'[i].seq
      /\ \A i \in 1..Len(s), n \in 1..Len(t) : s[i] < t[n]
  <2>1. ASSUME NEW i \in 1..Len(t), NEW j \in 1..Len(t), i < j PROVE t[i] < t[j]
    <3>1. f[i] < f[j] /\ f[i] \in 1..Len(Coming) /\ f[j] \in 1..Len(Coming)
      BY <1>2, <1>3, <1>4, <2>1
    <3>. QED BY <1>4, <1>5, <3>1
  <2>2. \A n \in 1..Len(t) : t[n] <= heard BY <1>2, <1>4, <1>5
  <2>3. ASSUME NEW n \in 1..Len(t), NEW i \in 1..Len(Coming'), FinalAt(i)'
        PROVE  t[n] < Coming'[i].seq
    <3>1. FinalAt(i + m) /\ i + m \in 1..Len(Coming) /\ Coming'[i] = Coming[i + m] /\ m < i + m
      BY <1>2, <2>3
    <3>2. f[n] < i + m /\ f[n] \in 1..Len(Coming) BY <1>2, <1>4, <3>1
    <3>. QED BY <1>4, <1>5, <3>1, <3>2
  <2>4. \A i \in 1..Len(s), n \in 1..Len(t) : s[i] < t[n] BY <1>2, <1>4, <1>5
  <2>. QED BY <2>1, <2>2, <2>3, <2>4
<1>7. \A n \in 1..Len(s), i \in 1..Len(Coming') : FinalAt(i)' => s[n] < Coming'[i].seq
  BY <1>2, <1>5
<1>8. CASE k = h
  <2> DEFINE q == s \o t
  <2>1. got'[k] = q BY <1>8 DEF Sleep, TypeInv, s, t
  <2>2. /\ DOMAIN q = 1..Len(s) + Len(t)
        /\ \A n \in 1..Len(s) + Len(t) :
              q[n] = IF n <= Len(s) THEN s[n] ELSE t[n - Len(s)]
    BY <1>1
  <2> HIDE DEF q
  <2>3. \A n \in 1..Len(s) + Len(t) :
          \/ n \in 1..Len(s) /\ q[n] = s[n]
          \/ n - Len(s) \in 1..Len(t) /\ Len(s) < n /\ q[n] = t[n - Len(s)]
    BY <1>1, <2>2
  <2>4. Ascends(q)
    <3> SUFFICES ASSUME NEW i \in 1..Len(s) + Len(t), NEW j \in 1..Len(s) + Len(t), i < j
                 PROVE  q[i] < q[j]
      BY <2>2 DEF Ascends
    <3>1. CASE i \in 1..Len(s) /\ q[i] = s[i] /\ j \in 1..Len(s) /\ q[j] = s[j]
      BY <1>5, <3>1
    <3>2. CASE /\ i \in 1..Len(s) /\ q[i] = s[i]
               /\ j - Len(s) \in 1..Len(t) /\ q[j] = t[j - Len(s)]
      BY <1>6, <3>2
    <3>3. CASE /\ i - Len(s) \in 1..Len(t) /\ q[i] = t[i - Len(s)]
               /\ j - Len(s) \in 1..Len(t) /\ q[j] = t[j - Len(s)]
      <4>1. i - Len(s) < j - Len(s) BY <1>1
      <4>. QED BY <1>6, <3>3, <4>1
    <3>4. ~ (Len(s) < i /\ j \in 1..Len(s)) BY <1>1
    <3>. QED BY <2>3, <3>1, <3>2, <3>3, <3>4
  <2>5. \A n \in 1..Len(s) + Len(t) :
          /\ q[n] <= heard
          /\ \A i \in 1..Len(Coming') : FinalAt(i)' => q[n] < Coming'[i].seq
    BY <1>5, <1>6, <1>7, <2>3
  <2>. QED BY <1>2, <2>1, <2>2, <2>4, <2>5
<1>9. CASE k # h
  <2>1. got'[k] = s BY <1>9 DEF Sleep, TypeInv, s
  <2>2. Ascends(s) BY <1>1, <1>5 DEF Ascends
  <2>. QED BY <1>1, <1>2, <1>5, <1>7, <2>1, <2>2
<1>. QED BY <1>8, <1>9

(* A sender that takes nothing has received nothing out of order.          *)
LEMMA ReceivedOrder ==
  ASSUME TypeInv, OrderInv, NEW k \in Senders, got'[k] = got[k] \/ got'[k] = <<>>,
         heard \in Int, heard' \in Int, heard <= heard',
         \A i \in DOMAIN Coming', n \in DOMAIN got[k] :
            FinalAt(i)' => got[k][n] < Coming'[i].seq
  PROVE  /\ Ascends(got'[k])
         /\ \A n \in DOMAIN got'[k] :
               /\ got'[k][n] <= heard'
               /\ \A i \in DOMAIN Coming' : FinalAt(i)' => got'[k][n] < Coming'[i].seq
<1>1. CASE got'[k] = <<>> BY <1>1 DEF Ascends
<1>2. CASE got'[k] = got[k]
  <2>1. \A n \in DOMAIN got[k] : got[k][n] \in Int BY DEF TypeInv, Numbers
  <2>2. Ascends(got[k]) /\ \A n \in DOMAIN got[k] : got[k][n] <= heard BY DEF OrderInv
  <2>3. \A n \in DOMAIN got[k] : got[k][n] <= heard' BY <2>1, <2>2
  <2>. QED BY <1>2, <2>2, <2>3
<1>. QED BY <1>1, <1>2

LEMMA OrderStep ==
  ASSUME TypeInv, TypeInv', RequestInv, HeardInv, OrderInv, [Next]_vars
  PROVE  OrderInv'
<1>1. /\ DOMAIN Coming = 1..Len(Coming) /\ Len(Coming) \in Nat
      /\ heard \in Int /\ heard' \in Int
      /\ \A i \in 1..Len(Coming) : Coming[i] \in Events /\ Coming[i].seq \in Int
      /\ DOMAIN Coming' = 1..Len(Coming')
  <2>1. \A i \in 1..Len(Coming) : Coming[i].seq \in Int BY ComingType, EventItems
  <2>2. heard \in Int /\ heard' \in Int BY DEF TypeInv
  <2>3. DOMAIN Coming' = 1..Len(Coming') BY ComingTypeNext
  <2>. QED BY <2>1, <2>2, <2>3, ComingType
<1>2. /\ \A i, j \in 1..Len(Coming) :
            FinalAt(i) /\ FinalAt(j) /\ i < j => Coming[i].seq < Coming[j].seq
      /\ \A i \in 1..Len(Coming) : Coming[i].seq <= heard
      /\ \A k \in Senders : \A n \in DOMAIN got[k] :
            /\ got[k][n] <= heard /\ got[k][n] \in Int
            /\ \A i \in 1..Len(Coming) : FinalAt(i) => got[k][n] < Coming[i].seq
  <2>1. ASSUME NEW k \in Senders, NEW n \in DOMAIN got[k] PROVE got[k][n] \in Int
    <3>1. got[k] \in Seq(Numbers) BY DEF TypeInv
    <3>2. got[k][n] \in Numbers BY <3>1
    <3>. QED BY <3>2 DEF Numbers
  <2>. QED BY <1>1, <2>1 DEF OrderInv, HeardInv
<1>3. CASE \/ \E h \in Senders : Accept(h) \/ End(h)
           \/ Close \/ Read \/ UNCHANGED vars
  BY <1>3, QuietSteps DEF Keeps, OrderInv, FinalAt
<1>4. CASE Serve
  <2>1. heard < heard' /\ got' = got
    BY <1>4, ServeRequests DEF Serve, waiting
  <2>2. PICK new \in Seq(Events) :
          /\ Grows(new)
          /\ \/ new = <<[type |-> "ack", seq |-> heard']>>
             \/ new = <<[type |-> "final", seq |-> heard'], [type |-> "ack", seq |-> heard']>>
    BY <1>4, ServeRequests
  <2>3. /\ Len(new) \in 1..2 /\ \A j \in 1..Len(new) : new[j].seq = heard'
        /\ \A j \in 1..Len(new) : new[j].type = "final" => j = 1
    BY <2>2
  <2>4. /\ Len(Coming') = Len(Coming) + Len(new)
        /\ \A j \in 1..Len(Coming) : Coming'[j] = Coming[j]
        /\ \A j \in 1..Len(Coming') : Len(Coming) < j => Coming'[j] = new[j - Len(Coming)]
    BY <2>2 DEF Grows
  <2>5. \A i \in 1..Len(Coming') :
          \/ i \in 1..Len(Coming) /\ Coming'[i] = Coming[i] /\ (FinalAt(i)' <=> FinalAt(i))
          \/ /\ i > Len(Coming) /\ Coming'[i].seq = heard'
             /\ FinalAt(i)' => i = Len(Coming) + 1
    <3> SUFFICES ASSUME NEW i \in 1..Len(Coming')
                 PROVE  \/ /\ i \in 1..Len(Coming) /\ Coming'[i] = Coming[i]
                           /\ (FinalAt(i)' <=> FinalAt(i))
                        \/ /\ i > Len(Coming) /\ Coming'[i].seq = heard'
                           /\ FinalAt(i)' => i = Len(Coming) + 1
      OBVIOUS
    <3>1. CASE i \in 1..Len(Coming) BY <2>4, <3>1 DEF FinalAt
    <3>2. CASE i > Len(Coming)
      <4>1. i - Len(Coming) \in 1..Len(new) BY <1>1, <2>3, <2>4, <3>2
      <4>2. Coming'[i] = new[i - Len(Coming)] BY <2>4, <3>2
      <4>3. FinalAt(i)' => i - Len(Coming) = 1 BY <2>3, <4>1, <4>2 DEF FinalAt
      <4>. QED BY <1>1, <2>3, <3>2, <4>1, <4>2, <4>3
    <3>. QED BY <1>1, <3>1, <3>2
  <2>6. ASSUME NEW i \in 1..Len(Coming'), NEW j \in 1..Len(Coming'),
               FinalAt(i)', FinalAt(j)', i < j
        PROVE  Coming'[i].seq < Coming'[j].seq
    <3>1. i \in 1..Len(Coming) /\ Coming'[i] = Coming[i] /\ FinalAt(i)
      BY <1>1, <2>5, <2>6
    <3>2. CASE j \in 1..Len(Coming) /\ Coming'[j] = Coming[j] /\ FinalAt(j)
      BY <1>2, <2>6, <3>1, <3>2
    <3>3. CASE Coming'[j].seq = heard' BY <1>1, <1>2, <2>1, <3>1, <3>3
    <3>. QED BY <2>5, <2>6, <3>2, <3>3
  <2>7. ASSUME NEW k \in Senders, NEW n \in DOMAIN got[k],
               NEW i \in 1..Len(Coming'), FinalAt(i)'
        PROVE  got[k][n] < Coming'[i].seq
    <3>1. CASE i \in 1..Len(Coming) /\ Coming'[i] = Coming[i] /\ FinalAt(i)
      BY <1>2, <3>1
    <3>2. CASE Coming'[i].seq = heard' BY <1>1, <1>2, <2>1, <3>2
    <3>. QED BY <2>5, <2>7, <3>1, <3>2
  <2>8. heard <= heard' BY <1>1, <2>1
  <2>9. \A k \in Senders :
          /\ Ascends(got'[k])
          /\ \A n \in DOMAIN got'[k] :
                /\ got'[k][n] <= heard'
                /\ \A i \in DOMAIN Coming' : FinalAt(i)' => got'[k][n] < Coming'[i].seq
    BY <1>1, <2>1, <2>7, <2>8, ReceivedOrder
  <2>. QED BY <1>1, <2>6, <2>9 DEF OrderInv, FinalAt, Ascends
<1>5. CASE Fail
  <2>1. Grows(<<Error>>) /\ heard' = heard /\ got' = got BY <1>5, FailGrows
  <2>2. /\ Len(Coming') = Len(Coming) + 1
        /\ \A j \in 1..Len(Coming) : Coming'[j] = Coming[j]
        /\ Coming'[Len(Coming) + 1] = Error
    <3>1. Len(<<Error>>) = 1 /\ <<Error>>[1] = Error OBVIOUS
    <3>2. /\ Len(Coming') = Len(Coming) + 1
          /\ \A j \in 1..Len(Coming) : Coming'[j] = Coming[j]
          /\ \A j \in 1..Len(Coming') :
                Len(Coming) < j => Coming'[j] = <<Error>>[j - Len(Coming)]
      BY <2>1, <3>1 DEF Grows
    <3>3. Coming'[Len(Coming) + 1] = <<Error>>[Len(Coming) + 1 - Len(Coming)]
      BY <1>1, <3>2
    <3>4. Len(Coming) + 1 - Len(Coming) = 1 BY <1>1
    <3>. QED BY <3>1, <3>2, <3>3, <3>4
  <2>3. \A i \in 1..Len(Coming') :
          FinalAt(i)' => i \in 1..Len(Coming) /\ FinalAt(i) /\ Coming'[i] = Coming[i]
    <3>1. \A i \in 1..Len(Coming') : i \in 1..Len(Coming) \/ i = Len(Coming) + 1
      BY <1>1, <2>2
    <3>. QED BY <2>2, <3>1, EventItems DEF FinalAt
  <2>4. \A i, j \in 1..Len(Coming') :
          FinalAt(i)' /\ FinalAt(j)' /\ i < j => Coming'[i].seq < Coming'[j].seq
    BY <1>2, <2>3
  <2>5. \A k \in Senders : \A n \in DOMAIN got[k], i \in 1..Len(Coming') :
           FinalAt(i)' => got[k][n] < Coming'[i].seq
    BY <1>2, <2>3
  <2>6. heard <= heard' BY <1>1, <2>1
  <2>7. \A k \in Senders :
          /\ Ascends(got'[k])
          /\ \A n \in DOMAIN got'[k] :
                /\ got'[k][n] <= heard'
                /\ \A i \in DOMAIN Coming' : FinalAt(i)' => got'[k][n] < Coming'[i].seq
    BY <1>1, <2>1, <2>5, <2>6, ReceivedOrder
  <2>. QED BY <1>1, <2>4, <2>7 DEF OrderInv, FinalAt, Ascends
<1>6. CASE Get
  <2> DEFINE h == Head(ready)
  <2>1. /\ h \in Senders /\ heard' = heard
        /\ \/ Sleep(h) /\ Drops(Len(events)) /\ Coming' = wire
           \/ \E i \in DOMAIN events : Returns(h, i)
    BY <1>6, GetSteps
  <2> HIDE DEF h
  <2>2. PICK d : Drops(d) BY <2>1 DEF Returns
  <2>3. \A i \in 1..Len(Coming') :
           /\ i + d \in 1..Len(Coming) /\ Coming'[i] = Coming[i + d] /\ d \in Nat
           /\ FinalAt(i)' <=> FinalAt(i + d)
    BY <2>2, DropsItems DEF FinalAt
  <2>4. ASSUME NEW i \in 1..Len(Coming'), NEW j \in 1..Len(Coming'),
               FinalAt(i)', FinalAt(j)', i < j
        PROVE  Coming'[i].seq < Coming'[j].seq
    <3>1. i + d < j + d BY <2>3, <2>4
    <3>. QED BY <1>2, <2>3, <2>4, <3>1
  <2>5. \A k \in Senders : \A n \in DOMAIN got[k], i \in 1..Len(Coming') :
           FinalAt(i)' => got[k][n] < Coming'[i].seq
    BY <1>2, <2>3
  <2>6. heard <= heard' BY <1>1, <2>1
  <2>7. ASSUME NEW k \in Senders
        PROVE  /\ Ascends(got'[k])
               /\ \A n \in DOMAIN got'[k] :
                     /\ got'[k][n] <= heard'
                     /\ \A i \in DOMAIN Coming' : FinalAt(i)' => got'[k][n] < Coming'[i].seq
    <3>1. CASE Sleep(h) /\ Drops(Len(events)) /\ Coming' = wire
      BY <2>1, <3>1, SleepOrder
    <3>2. ASSUME NEW i \in DOMAIN events, Returns(h, i) PROVE got'[k] = got[k] \/ got'[k] = <<>>
      BY <3>2 DEF Returns, TypeInv
    <3>3. CASE got'[k] = got[k] \/ got'[k] = <<>>
      BY <1>1, <2>5, <2>6, <3>3, ReceivedOrder
    <3>. QED BY <2>1, <3>1, <3>2, <3>3
  <2>. QED BY <1>1, <2>4, <2>7 DEF OrderInv, FinalAt, Ascends
<1>. QED BY <1>3, <1>4, <1>5, <1>6 DEF Next

-----------------------------------------------------------------------------
(* While no two senders overlap, every transcript becomes a segment.       *)

LEMMA PrefixItems ==
  ASSUME NEW S, NEW s \in Seq(S), NEW t \in Seq(S)
  PROVE  IsPrefix(s, t) <=> Len(s) <= Len(t) /\ \A i \in 1..Len(s) : s[i] = t[i]
<1>1. Len(s) \in Nat /\ Len(t) \in Nat OBVIOUS
<1>2. CASE Len(s) <= Len(t)
  <2>1. \A i \in 1..Len(s) : s[i] \in S /\ t[i] \in S BY <1>1, <1>2
  <2>2. /\ SubSeq(s, 1, Len(s)) \in Seq(S) /\ Len(SubSeq(s, 1, Len(s))) = Len(s)
        /\ \A i \in 1..Len(s) : SubSeq(s, 1, Len(s))[i] = s[i]
    BY <1>1, <2>1, SubSeqProperties
  <2>3. /\ SubSeq(t, 1, Len(s)) \in Seq(S) /\ Len(SubSeq(t, 1, Len(s))) = Len(s)
        /\ \A i \in 1..Len(s) : SubSeq(t, 1, Len(s))[i] = t[i]
    BY <1>1, <1>2, <2>1, SubSeqProperties
  <2>4. ASSUME \A i \in 1..Len(s) : s[i] = t[i]
        PROVE  SubSeq(s, 1, Len(s)) = SubSeq(t, 1, Len(s))
    BY <2>2, <2>3, <2>4, SeqEqual
  <2>. QED BY <1>2, <2>2, <2>3, <2>4 DEF IsPrefix
<1>3. CASE ~ Len(s) <= Len(t) BY <1>3 DEF IsPrefix
<1>. QED BY <1>2, <1>3

LEMMA PrefixJoin ==
  ASSUME NEW S, NEW s \in Seq(S), NEW t \in Seq(S), NEW u \in Seq(S)
  PROVE  /\ IsPrefix(s, s) /\ IsPrefix(s, Join(s, t))
         /\ IsPrefix(s, t) => IsPrefix(s, Join(t, u))
<1>1. Len(s) \in Nat /\ Len(t) \in Nat /\ Len(u) \in Nat OBVIOUS
<1>2. IsPrefix(s, s) BY <1>1, PrefixItems
<1>3. IsPrefix(s, Join(s, t))
  <2> DEFINE q == Join(s, t)
  <2>1. q \in Seq(S) /\ Len(q) = Len(s) + Len(t) /\ \A i \in 1..Len(s) : q[i] = s[i]
    <3>1. /\ q \in Seq(S) /\ Len(q) = Len(s) + Len(t)
          /\ \A n \in 1..Len(s) + Len(t) :
                q[n] = IF n <= Len(s) THEN s[n] ELSE t[n - Len(s)]
      BY JoinProperties
    <3> HIDE DEF q
    <3>. QED BY <1>1, <3>1
  <2> HIDE DEF q
  <2>2. IsPrefix(s, q) BY <1>1, <2>1, PrefixItems
  <2>. QED BY <2>2 DEF q
<1>4. ASSUME IsPrefix(s, t) PROVE IsPrefix(s, Join(t, u))
  <2> DEFINE q == Join(t, u)
  <2>1. q \in Seq(S) /\ Len(q) = Len(t) + Len(u) /\ \A i \in 1..Len(t) : q[i] = t[i]
    <3>1. /\ q \in Seq(S) /\ Len(q) = Len(t) + Len(u)
          /\ \A n \in 1..Len(t) + Len(u) :
                q[n] = IF n <= Len(t) THEN t[n] ELSE u[n - Len(t)]
      BY JoinProperties
    <3> HIDE DEF q
    <3>. QED BY <1>1, <3>1
  <2>2. Len(s) <= Len(t) /\ \A i \in 1..Len(s) : s[i] = t[i] BY <1>4, PrefixItems
  <2> HIDE DEF q
  <2>3. IsPrefix(s, q) BY <1>1, <2>1, <2>2, PrefixItems, SMTT(30)
  <2>. QED BY <2>3 DEF q
<1>. QED BY <1>2, <1>3, <1>4

LEMMA JoinTwice ==
  ASSUME NEW S, NEW s \in Seq(S), NEW t \in Seq(S), NEW u \in Seq(S)
  PROVE  /\ Join(Join(s, t), u) = Join(s, Join(t, u))
         /\ Join(s, <<>>) = s /\ Join(<<>>, s) = s
         /\ Join(s, t) \in Seq(S)
BY ConcatAssociative, ConcatEmptySeq, ConcatProperties DEF Join

(* What a sender's transcripts amount to.                                  *)
Whole(h) == Join(Join(segments, got[h]), Transcripts(Coming)) = finals

LEMMA WholeType ==
  ASSUME TypeInv, NEW h \in Senders
  PROVE  /\ segments \in Seq(Numbers) /\ got[h] \in Seq(Numbers) /\ finals \in Seq(Numbers)
         /\ events \in Seq(Events) /\ wire \in Seq(Events) /\ Coming \in Seq(Events)
         /\ Transcripts(Coming) \in Seq(Numbers) /\ Transcripts(events) \in Seq(Numbers)
         /\ Transcripts(wire) \in Seq(Numbers)
         /\ Coming = Join(events, wire)
<1>1. /\ segments \in Seq(Numbers) /\ got[h] \in Seq(Numbers) /\ finals \in Seq(Numbers)
      /\ events \in Seq(Events) /\ wire \in Seq(Events)
  BY DEF TypeInv
<1>2. Coming \in Seq(Events) BY ComingType
<1>. QED BY <1>1, <1>2, TranscriptsProperties DEF Coming, Join

(* What CleanInv says, as the steps use it.                                *)
LEMMA CleanFacts ==
  ASSUME TypeInv, CleanInv
  PROVE  /\ \A g, h \in Senders : Busy(g) /\ Busy(h) => g = h
         /\ \A i, j \in 1..Len(Coming) :
               i < j /\ Coming[i].type # "final" => Coming[j] = Error
         /\ \A i \in 1..Len(Coming) : Coming[i] # Error => \E h \in Senders : Busy(h)
         /\ \A i \in 1..Len(Coming), h \in Senders :
               Busy(h) /\ Coming[i].type = "ack" => Coming[i].seq = want[h]
         /\ service = "up" /\ requests # <<>> =>
               /\ Coming = <<>> /\ Len(requests) = 1
               /\ \E h \in Senders : Busy(h) /\ requests[1].seq = want[h]
         /\ IsPrefix(segments, finals)
         /\ \A h \in Senders : Busy(h) => ~Told /\ Whole(h)
         /\ ~Told /\ (\A g \in Senders : ~Busy(g)) => \A h \in Senders : Whole(h)
<1>1. DOMAIN Coming = 1..Len(Coming) BY ComingType
<1>2. /\ \A g, h \in Senders : Busy(g) /\ Busy(h) => g = h
      /\ IsPrefix(segments, finals)
      /\ \A h \in Senders : Busy(h) => ~Told
  BY Zenon DEF CleanInv, OneSender
<1>3. /\ \A i, j \in 1..Len(Coming) :
            i < j /\ Coming[i].type # "final" => Coming[j] = Error
      /\ \A i \in 1..Len(Coming) : Coming[i] # Error => \E h \in Senders : Busy(h)
      /\ \A i \in 1..Len(Coming), h \in Senders :
            Busy(h) /\ Coming[i].type = "ack" => Coming[i].seq = want[h]
      /\ service = "up" /\ requests # <<>> =>
            /\ Coming = <<>> /\ Len(requests) = 1
            /\ \E h \in Senders : Busy(h) /\ requests[1].seq = want[h]
  BY <1>1, Zenon DEF CleanInv, OneFrame
<1>4. ~Told => \A h \in Senders : (\A g \in Senders : Busy(g) => g = h) => Whole(h)
  BY Zenon DEF CleanInv, AllKept, Whole, Join
<1>5. \A h \in Senders : Busy(h) => Whole(h) BY <1>2, <1>4, Zenon
<1>. QED BY <1>2, <1>3, <1>4, <1>5, Zenon

(* The same, to be shown of the next state.                                *)
LEMMA CleanNext ==
  ASSUME TypeInv',
         \A g, h \in Senders : Busy(g)' /\ Busy(h)' => g = h,
         \A i, j \in 1..Len(Coming') :
            i < j /\ Coming'[i].type # "final" => Coming'[j] = Error,
         \A i \in 1..Len(Coming') : Coming'[i] # Error => \E h \in Senders : Busy(h)',
         \A i \in 1..Len(Coming'), h \in Senders :
            Busy(h)' /\ Coming'[i].type = "ack" => Coming'[i].seq = want'[h],
         service' = "up" /\ requests' # <<>> =>
            /\ Coming' = <<>> /\ Len(requests') = 1
            /\ \E h \in Senders : Busy(h)' /\ requests'[1].seq = want'[h],
         IsPrefix(segments', finals'),
         Told' => \A h \in Senders : ~Busy(h)',
         ~Told' => \A h \in Senders : (\A g \in Senders : Busy(g)' => g = h) => Whole(h)'
  PROVE  CleanInv'
<1>1. DOMAIN Coming' = 1..Len(Coming') BY ComingTypeNext
<1>2. OneSender' BY Zenon DEF OneSender
<1>3. OneFrame' BY <1>1, Zenon DEF OneFrame
<1>4. ~Told' => AllKept' BY Zenon DEF AllKept, Whole, Join
<1>. QED BY <1>2, <1>3, <1>4, Zenon DEF CleanInv

LEMMA SendStory ==
  ASSUME TypeInv, TypeInv', WaitInv, ErrorInv, StoryInv, NEW h \in Senders, NEW n, NEW end,
         pc[h] = "idle", Send(h, n, end), clean'
  PROVE  CleanInv'
<1>1. /\ clean /\ \A g \in Senders : ~Busy(g)
      /\ service # "failed" \/ Error \in ToSet(wire \o events)
  BY DEF Send
<1>2. CleanInv BY <1>1 DEF StoryInv
<1>3. /\ Coming' = Coming /\ service' = service /\ segments' = segments
      /\ finals' = finals /\ got' = got
  BY ComingKept DEF Send
<1>4. /\ DOMAIN Coming = 1..Len(Coming) /\ Len(Coming) \in Nat /\ Coming \in Seq(Events)
      /\ Len(Coming) = Len(events) + Len(wire) /\ Len(events) \in Nat /\ Len(wire) \in Nat
      /\ \A i \in 1..Len(Coming) :
            Coming[i] = IF i <= Len(events) THEN events[i] ELSE wire[i - Len(events)]
  <2>1. Coming \in Seq(Events) /\ DOMAIN Coming = 1..Len(Coming) BY ComingType
  <2>2. Len(Coming) \in Nat BY <2>1
  <2>. QED BY <2>1, <2>2, ComingType
<1>5. \A i \in 1..Len(Coming) : Coming[i] = Error /\ Coming[i].type = "error"
  BY <1>1, <1>2, CleanFacts, EventItems
<1>6. ~Told
  <2>1. CASE service # "failed" BY <2>1 DEF Told
  <2>2. CASE Error \in ToSet(wire \o events)
    <3>1. /\ DOMAIN (wire \o events) = 1..Len(wire) + Len(events)
          /\ \A i \in 1..Len(wire) + Len(events) :
                (wire \o events)[i] = IF i <= Len(wire) THEN wire[i] ELSE events[i - Len(wire)]
      BY DEF TypeInv
    <3>2. PICK i \in 1..Len(wire) + Len(events) : (wire \o events)[i] = Error
      BY <2>2, <3>1 DEF ToSet
    <3>3. Len(Coming) > 0 BY <1>4, <3>2
    <3>4. 1 \in DOMAIN Coming /\ Coming[1] = Error BY <1>4, <1>5, <3>3
    <3>. QED BY <3>4 DEF Told
  <2>. QED BY <1>1, <2>1, <2>2
<1>7. ~Told' BY <1>3, <1>6 DEF Told
<1>8. \A g \in Senders : Busy(g)' <=> g = h
  <2>1. pc' = [pc EXCEPT ![h] = "ending"] \/ pc' = [pc EXCEPT ![h] = "sending"]
    BY DEF Send
  <2>. QED BY <1>1, <2>1 DEF Busy, TypeInv
<1>9. service' = "up" => Coming' = <<>> /\ requests = <<>>
  <2>1. ASSUME service = "up" PROVE Len(Coming) = 0
    <3>1. \A i \in 1..Len(Coming) : Coming[i] # Error BY <1>4, <2>1 DEF ErrorInv
    <3>2. ~ 1 \in 1..Len(Coming) BY <1>5, <3>1
    <3>. QED BY <1>4, <3>2
  <2>2. service = "up" => requests = <<>> BY <1>1, <1>2, CleanFacts
  <2>3. Len(Coming) = 0 => Coming = <<>> BY <1>4, EmptySeq
  <2>. QED BY <1>3, <2>1, <2>2, <2>3
<1>10. service' = "up" =>
         Coming' = <<>> /\ Len(requests') = 1 /\ requests'[1].seq = want'[h]
  <2>1. requests' = Append(requests, [seq |-> n, end |-> end]) /\ want'[h] = n
    BY DEF Send, TypeInv
  <2>. QED BY <1>9, <2>1
<1>11. Whole(h)' BY <1>1, <1>2, <1>3, <1>6, CleanFacts DEF Whole
<1>12. IsPrefix(segments', finals') BY <1>2, <1>3, CleanFacts
<1>. QED BY <1>3, <1>5, <1>7, <1>8, <1>10, <1>11, <1>12, CleanNext

LEMMA QuietStory ==
  ASSUME TypeInv, TypeInv', StoryInv, clean', clean' = clean, Keeps, requests' = requests,
         want' = want, \A h \in Senders : Busy(h)' <=> Busy(h)
  PROVE  CleanInv'
<1>1. /\ CleanInv /\ Coming' = Coming /\ got' = got /\ service' = service
      /\ finals' = finals /\ segments' = segments
  BY DEF StoryInv, Keeps
<1>2. Told' <=> Told BY <1>1 DEF Told
<1>3. \A h \in Senders : Whole(h)' <=> Whole(h) BY <1>1 DEF Whole
<1>4. ~Told => \A h \in Senders : (\A g \in Senders : Busy(g) => g = h) => Whole(h)
  BY <1>1, Zenon DEF CleanInv, AllKept, Whole, Join
<1>. QED BY <1>1, <1>2, <1>3, <1>4, CleanFacts, CleanNext

LEMMA ServeStory ==
  ASSUME TypeInv, TypeInv', RequestInv, StoryInv, Serve, clean'
  PROVE  CleanInv'
<1>1. /\ clean' = clean /\ pc' = pc /\ want' = want /\ got' = got /\ segments' = segments
      /\ service = "up" /\ requests # <<>> /\ requests' = Tail(requests)
      /\ service' # "failed"
  BY DEF Serve, waiting, session
<1>2. CleanInv BY <1>1 DEF StoryInv
<1>3. /\ Coming = <<>> /\ Len(requests) = 1
      /\ \A g, h \in Senders : Busy(g) /\ Busy(h) => g = h
      /\ IsPrefix(segments, finals)
      /\ \A h \in Senders : Busy(h) => Whole(h)
  BY <1>1, <1>2, CleanFacts
<1>4. PICK h \in Senders : Busy(h) /\ requests[1].seq = want[h]
  BY <1>1, <1>2, CleanFacts
<1>5. \A g \in Senders : Busy(g)' <=> g = h BY <1>1, <1>3, <1>4 DEF Busy
<1>6. heard' = want[h] /\ requests' = <<>>
  <2>1. requests \in Seq(Requests) BY DEF TypeInv
  <2>2. Head(requests) = requests[1] /\ Tail(requests) = <<>>
    <3>1. Tail(requests) \in Seq(Requests) /\ Len(Tail(requests)) = 0
      BY <1>1, <1>3, <2>1, HeadTailProperties
    <3>2. Tail(requests) = <<>> BY <3>1, EmptySeq
    <3>3. Head(requests) = requests[1] OBVIOUS
    <3>. QED BY <3>2, <3>3, Zenon
  <2>. QED BY <1>1, <1>4, <2>2, ServeRequests
<1>7. PICK new \in Seq(Events) :
        /\ Grows(new)
        /\ \/ /\ new = <<[type |-> "ack", seq |-> heard']>>
              /\ finals' = finals
           \/ /\ new = <<[type |-> "final", seq |-> heard'], [type |-> "ack", seq |-> heard']>>
              /\ finals' = Append(finals, heard')
  BY ServeRequests
<1>8. Coming' = new BY <1>3, <1>7, JoinTwice DEF Grows
<1>9. /\ \A i, j \in 1..Len(new) : i < j => new[i].type = "final"
      /\ \A i \in 1..Len(new) : new[i].seq = heard'
  <2>1. CASE new = <<[type |-> "ack", seq |-> heard']>> BY <2>1
  <2>2. CASE new = <<[type |-> "final", seq |-> heard'], [type |-> "ack", seq |-> heard']>>
    <3>1. /\ Len(new) = 2 /\ new[1].type = "final"
          /\ new[1].seq = heard' /\ new[2].seq = heard'
      BY <2>2
    <3>2. \A i \in 1..2 : i = 1 \/ i = 2 OBVIOUS
    <3>. QED BY <3>1, <3>2
  <2>. QED BY <1>7, <2>1, <2>2
<1>10. ~Told' BY <1>1 DEF Told
<1>11. /\ segments \in Seq(Numbers) /\ got[h] \in Seq(Numbers) /\ finals \in Seq(Numbers)
       /\ heard' \in Numbers
  <2>1. heard' \in Numbers
    <3>1. 1 \in 1..Len(requests) BY <1>3
    <3>2. requests[1] \in Requests BY <3>1, RequestItems
    <3>. QED BY <1>4, <1>6, <3>2 DEF Requests
  <2>. QED BY <2>1, WholeType
<1>12. Join(segments, got[h]) = finals /\ Join(segments, got[h]) \in Seq(Numbers)
  <2>1. Transcripts(Coming) = <<>>
    <3>1. Coming \in Seq(Events) BY ComingType
    <3>2. Len(Coming) = 0 BY <1>3
    <3>3. \A i \in 1..Len(Coming) : Coming[i].type # "final" BY <3>2
    <3>. QED BY <3>1, <3>3, TranscriptsNone
  <2>2. Whole(h) BY <1>3, <1>4
  <2>. QED BY <1>11, <2>1, <2>2, JoinTwice DEF Whole
<1>13. Join(finals, Transcripts(new)) = finals'
  <2>1. CASE new = <<[type |-> "ack", seq |-> heard']>> /\ finals' = finals
    <3>1. \A i \in 1..Len(new) : new[i].type # "final" BY <2>1
    <3>2. Transcripts(new) = <<>> BY <3>1, TranscriptsNone
    <3>. QED BY <1>11, <2>1, <3>2, JoinTwice
  <2>2. CASE /\ new = <<[type |-> "final", seq |-> heard'], [type |-> "ack", seq |-> heard']>>
             /\ finals' = Append(finals, heard')
    <3>1. Transcripts(new) = <<heard'>>
      <4> DEFINE t == Transcripts(new)
      <4>1. Len(new) = 2 /\ new[1].type = "final" /\ new[2].type # "final"
            /\ new[1].seq = heard'
        BY <2>2
      <4>2. PICK f \in [1..Len(t) -> FinalsOf(new)] :
              /\ \A n \in 1..Len(t) : t[n] = new[f[n]].seq
              /\ \A l, m \in 1..Len(t) : l < m => f[l] < f[m]
        BY TranscriptsProperties
      <4>3. FinalsOf(new) = {1} BY <4>1 DEF FinalsOf
      <4>4. t \in Seq(Numbers) /\ Len(t) = Cardinality({1})
        <5>1. {1} \in SUBSET (1..Len(new)) BY <4>1
        <5>2. Len(Chosen(new, {1})) = Cardinality({1}) BY <5>1, ChosenProperties
        <5>. QED BY <4>3, <5>2, TranscriptsProperties
      <4>5. Len(t) = 1 BY <4>4, FS_Singleton
      <4> HIDE DEF t
      <4>6. t[1] = heard' BY <4>1, <4>2, <4>3, <4>5
      <4>7. <<heard'>> \in Seq(Numbers) /\ Len(<<heard'>>) = 1 /\ <<heard'>>[1] = heard'
        BY <1>11
      <4>8. \A i \in 1..1 : t[i] = <<heard'>>[i] BY <4>6, <4>7
      <4>9. t = <<heard'>> BY <4>4, <4>5, <4>7, <4>8, SeqEqual
      <4>. QED BY <4>9 DEF t
    <3>2. Append(finals, heard') = finals \o <<heard'>> BY <1>11
    <3>. QED BY <2>2, <3>1, <3>2 DEF Join
  <2>. QED BY <1>7, <2>1, <2>2
<1>14. Whole(h)' BY <1>1, <1>8, <1>12, <1>13 DEF Whole
<1>15. IsPrefix(segments', finals')
  <2>1. Transcripts(new) \in Seq(Numbers) BY TranscriptsProperties
  <2>. QED BY <1>1, <1>3, <1>11, <1>13, <2>1, PrefixJoin
<1>. QED BY <1>1, <1>4, <1>5, <1>6, <1>8, <1>9, <1>10, <1>14, <1>15, CleanNext

LEMMA FailStory ==
  ASSUME TypeInv, TypeInv', ErrorInv, StoryInv, Fail, clean'
  PROVE  CleanInv'
<1>1. /\ Grows(<<Error>>) /\ service = "up" /\ service' = "failed"
      /\ UNCHANGED <<got, finals, segments, pc, want, clean>>
  BY FailGrows DEF Fail, waiting
<1>2. CleanInv /\ ~Told BY <1>1 DEF StoryInv, Told
<1>3. /\ Len(Coming') = Len(Coming) + 1 /\ Len(Coming) \in Nat
      /\ \A j \in 1..Len(Coming) : Coming'[j] = Coming[j]
      /\ Coming'[Len(Coming) + 1] = Error
      /\ Coming' = Join(Coming, <<Error>>)
  <2>1. Len(Coming) \in Nat BY ComingType
  <2>2. Len(<<Error>>) = 1 /\ <<Error>>[1] = Error OBVIOUS
  <2>3. /\ Len(Coming') = Len(Coming) + 1
        /\ \A j \in 1..Len(Coming) : Coming'[j] = Coming[j]
        /\ \A j \in 1..Len(Coming') :
              Len(Coming) < j => Coming'[j] = <<Error>>[j - Len(Coming)]
        /\ Coming' = Join(Coming, <<Error>>)
    BY <1>1, <2>2 DEF Grows
  <2>4. Coming'[Len(Coming) + 1] = <<Error>>[Len(Coming) + 1 - Len(Coming)]
    BY <2>1, <2>3
  <2>5. Len(Coming) + 1 - Len(Coming) = 1 BY <2>1
  <2>. QED BY <2>1, <2>2, <2>3, <2>4, <2>5
<1>4. \A i \in 1..Len(Coming') :
        \/ i \in 1..Len(Coming) /\ Coming'[i] = Coming[i]
        \/ i = Len(Coming) + 1 /\ Coming'[i] = Error
  BY <1>3
<1>5. \A h \in Senders : Busy(h)' <=> Busy(h) BY <1>1 DEF Busy
<1>6. ~Told'
  <2>1. DOMAIN Coming' = 1..Len(Coming') BY ComingTypeNext
  <2>2. Len(Coming) + 1 \in DOMAIN Coming' BY <1>3, <2>1
  <2>. QED BY <1>3, <2>2 DEF Told
<1>7. Transcripts(Coming') = Transcripts(Coming)
  <2>1. Coming \in Seq(Events) /\ <<Error>> \in Seq(Events) BY ComingType, EventItems
  <2>2. Transcripts(<<Error>>) = <<>>
    <3>1. \A i \in 1..Len(<<Error>>) : <<Error>>[i].type # "final" BY EventItems
    <3>. QED BY <2>1, <3>1, TranscriptsNone
  <2>3. Transcripts(Coming') = Join(Transcripts(Coming), Transcripts(<<Error>>))
    BY <1>3, <2>1, TranscriptsJoin
  <2>4. Transcripts(Coming) \in Seq(Numbers) BY <2>1, TranscriptsProperties
  <2>. QED BY <2>2, <2>3, <2>4, JoinTwice
<1>8. ASSUME NEW h \in Senders, \A g \in Senders : Busy(g)' => g = h PROVE Whole(h)'
  <2>1. Whole(h) BY <1>2, <1>5, <1>8, Zenon DEF CleanInv, AllKept, Whole, Join
  <2>. QED BY <1>1, <1>7, <2>1 DEF Whole
<1>9. \A i, j \in 1..Len(Coming') :
         i < j /\ Coming'[i].type # "final" => Coming'[j] = Error
  <2>1. \A i, j \in 1..Len(Coming) : i < j /\ Coming[i].type # "final" => Coming[j] = Error
    BY <1>2, CleanFacts
  <2>2. ASSUME NEW i \in 1..Len(Coming'), NEW j \in 1..Len(Coming'), i < j,
               Coming'[i].type # "final"
        PROVE  Coming'[j] = Error
    <3>1. i \in 1..Len(Coming) /\ Coming'[i] = Coming[i] BY <1>3, <1>4, <2>2
    <3>. QED BY <1>4, <2>1, <2>2, <3>1
  <2>. QED BY <2>2
<1>10. /\ \A i \in 1..Len(Coming') : Coming'[i] # Error => \E h \in Senders : Busy(h)'
       /\ \A i \in 1..Len(Coming'), h \in Senders :
             Busy(h)' /\ Coming'[i].type = "ack" => Coming'[i].seq = want'[h]
  BY <1>1, <1>2, <1>4, <1>5, CleanFacts, EventItems
<1>11. /\ IsPrefix(segments', finals')
       /\ \A g, h \in Senders : Busy(g)' /\ Busy(h)' => g = h
  BY <1>1, <1>2, <1>5, CleanFacts
<1>. QED BY <1>1, <1>6, <1>8, <1>9, <1>10, <1>11, CleanNext

LEMMA SleepStory ==
  ASSUME TypeInv, TypeInv', StoryInv, NEW h \in Senders, Busy(h), Sleep(h),
         Drops(Len(events)), Coming' = wire, clean', clean' = clean,
         UNCHANGED <<requests, service, wire, heard, finals>>
  PROVE  CleanInv'
<1> DEFINE m == Len(events)
<1>1. CleanInv /\ ~Told /\ Whole(h) /\ \A g \in Senders : Busy(g) => g = h
  BY CleanFacts DEF StoryInv
<1>2. /\ pc' = pc /\ want' = want /\ segments' = segments
      /\ got'[h] = Join(got[h], Transcripts(events))
      /\ \A i \in DOMAIN events : ~Decisive(h, events[i])
  BY DEF Sleep, session, TypeInv, Join
<1>3. \A g \in Senders : Busy(g)' <=> Busy(g) BY <1>2 DEF Busy
<1>4. /\ m \in Nat /\ Len(Coming) \in Nat /\ DOMAIN Coming' = 1..Len(Coming')
      /\ Len(Coming') = Len(Coming) - m
      /\ \A j \in 1..Len(Coming') :
            j + m \in 1..Len(Coming) /\ Coming'[j] = Coming[j + m]
  BY DropsItems
<1>5. \A i \in 1..Len(Coming) : i <= m => Coming[i] # Error
  <2>1. \A i \in 1..Len(Coming) : i <= m => i \in DOMAIN events /\ Coming[i] = events[i]
    BY ComingType
  <2>. QED BY <1>2, <2>1 DEF Decisive
<1> HIDE DEF m
<1>6. ~Told'
  <2>1. CASE service # "failed" BY <2>1 DEF Told
  <2>2. CASE service = "failed"
    <3>1. PICK i \in DOMAIN Coming : Coming[i] = Error BY <1>1, <2>2 DEF Told
    <3>2. i \in 1..Len(Coming) BY <3>1, ComingType
    <3>3. ~ i <= m BY <1>5, <3>1, <3>2
    <3>4. i - m \in 1..Len(Coming') /\ i - m + m = i BY <1>4, <3>2, <3>3
    <3>5. Coming'[i - m] = Error BY <1>4, <3>1, <3>4
    <3>. QED BY <1>4, <3>4, <3>5 DEF Told
  <2>. QED BY <2>1, <2>2
<1>7. Whole(h)'
  <2> DEFINE a == Transcripts(events)
             b == Transcripts(wire)
             s == segments
             g == got[h]
  <2>1. /\ s \in Seq(Numbers) /\ g \in Seq(Numbers) /\ a \in Seq(Numbers) /\ b \in Seq(Numbers)
        /\ Transcripts(Coming) = Join(a, b)
    BY WholeType, TranscriptsJoin
  <2>2. Join(Join(s, g), Join(a, b)) = finals BY <1>1, <2>1 DEF Whole
  <2>3. Whole(h)' <=> Join(Join(s, Join(g, a)), b) = finals BY <1>2 DEF Whole
  <2> HIDE DEF a, b, s, g
  <2>4. Join(g, a) \in Seq(Numbers) /\ Join(s, g) \in Seq(Numbers) BY <2>1, JoinTwice
  <2>5. Join(Join(s, Join(g, a)), b) = Join(Join(Join(s, g), a), b)
    BY <2>1, JoinTwice
  <2>6. Join(Join(Join(s, g), a), b) = Join(Join(s, g), Join(a, b))
    BY <2>1, <2>4, JoinTwice
  <2>. QED BY <2>2, <2>3, <2>5, <2>6
<1>8. \A i, j \in 1..Len(Coming') :
         i < j /\ Coming'[i].type # "final" => Coming'[j] = Error
  <2>1. \A i, j \in 1..Len(Coming) : i < j /\ Coming[i].type # "final" => Coming[j] = Error
    BY <1>1, CleanFacts
  <2>2. ASSUME NEW i \in 1..Len(Coming'), NEW j \in 1..Len(Coming'), i < j,
               Coming'[i].type # "final"
        PROVE  Coming'[j] = Error
    <3>1. i + m < j + m BY <1>4, <2>2
    <3>2. /\ i + m \in 1..Len(Coming) /\ Coming'[i] = Coming[i + m]
          /\ j + m \in 1..Len(Coming) /\ Coming'[j] = Coming[j + m]
      BY <1>4
    <3>. QED BY <2>1, <2>2, <3>1, <3>2
  <2>. QED BY <2>2
<1>9. /\ \A i \in 1..Len(Coming') : Coming'[i] # Error => \E g \in Senders : Busy(g)'
      /\ \A i \in 1..Len(Coming'), g \in Senders :
            Busy(g)' /\ Coming'[i].type = "ack" => Coming'[i].seq = want'[g]
  <2>1. \A i \in 1..Len(Coming), g \in Senders :
           Busy(g) /\ Coming[i].type = "ack" => Coming[i].seq = want[g]
    BY <1>1, CleanFacts
  <2>2. \E g \in Senders : Busy(g)' BY <1>3
  <2>3. ASSUME NEW i \in 1..Len(Coming'), NEW g \in Senders,
               Busy(g)', Coming'[i].type = "ack"
        PROVE  Coming'[i].seq = want'[g]
    <3>1. i + m \in 1..Len(Coming) /\ Coming'[i] = Coming[i + m] BY <1>4
    <3>2. Busy(g) /\ want' = want BY <1>2, <1>3, <2>3
    <3>. QED BY <2>1, <2>3, <3>1, <3>2
  <2>. QED BY <2>2, <2>3
<1>10. service' = "up" /\ requests' # <<>> =>
          /\ Coming' = <<>> /\ Len(requests') = 1
          /\ \E g \in Senders : Busy(g)' /\ requests'[1].seq = want'[g]
  <2>1. ASSUME service = "up", requests # <<>>
        PROVE  /\ Coming = <<>> /\ Len(requests) = 1
               /\ \E g \in Senders : Busy(g) /\ requests[1].seq = want[g]
    BY <1>1, <2>1, CleanFacts
  <2>2. Coming = <<>> => Coming' = <<>>
    <3>1. wire \in Seq(Events) /\ Len(Coming) = m + Len(wire) /\ Len(wire) \in Nat
      BY ComingType DEF TypeInv, m
    <3>2. Len(<<>>) = 0 OBVIOUS
    <3>3. ASSUME Coming = <<>> PROVE Coming' = <<>>
      <4>1. Len(Coming) = 0 BY <3>2, <3>3
      <4>2. Len(wire) = 0
        <5>1. \A x, y \in Nat : 0 = x + y => y = 0 OBVIOUS
        <5>2. m \in Nat /\ Len(wire) \in Nat /\ 0 = m + Len(wire) BY <1>4, <3>1, <4>1, Zenon
        <5>. QED BY <5>1, <5>2, Zenon
      <4>. QED BY <3>1, <4>2, EmptySeq
    <3>. QED BY <3>3
  <2>. QED BY <1>2, <1>3, <2>1, <2>2
<1>11. /\ IsPrefix(segments', finals')
       /\ \A g, k \in Senders : Busy(g)' /\ Busy(k)' => g = k
       /\ \A k \in Senders : (\A g \in Senders : Busy(g)' => g = k) => Whole(k)'
  BY <1>1, <1>2, <1>3, <1>7, CleanFacts
<1>. QED BY <1>6, <1>8, <1>9, <1>10, <1>11, CleanNext

LEMMA ReturnStory ==
  ASSUME TypeInv, TypeInv', WaitInv', ErrorInv, StoryInv, NEW h \in Senders, Busy(h),
         NEW i \in DOMAIN events, Returns(h, i), clean', clean' = clean,
         UNCHANGED <<requests, service, wire, heard, finals>>
  PROVE  CleanInv'
<1>1. CleanInv /\ ~Told /\ Whole(h) /\ \A g \in Senders : Busy(g) => g = h
  BY CleanFacts DEF StoryInv
<1>2. /\ i \in Nat /\ Len(Coming) \in Nat /\ DOMAIN Coming' = 1..Len(Coming')
      /\ Len(Coming') = Len(Coming) - i
      /\ \A j \in 1..Len(Coming') :
            j + i \in 1..Len(Coming) /\ Coming'[j] = Coming[j + i]
  <2>1. Drops(i) BY DEF Returns
  <2>. QED BY <2>1, DropsItems
<1>3. i \in 1..Len(Coming) /\ Coming[i] \in Events /\ DOMAIN Coming = 1..Len(Coming)
  BY ComingType
<1>4. \A g \in Senders : ~Busy(g)'
  <2>1. pc' = [pc EXCEPT ![h] = "gone"] \/ pc' = [pc EXCEPT ![h] = "idle"] BY DEF Returns
  <2>. QED BY <1>1, <2>1 DEF Busy, TypeInv
<1>5. \A g \in Senders : got'[g] = <<>> BY <1>4 DEF WaitInv, Busy
<1>6. Coming[i].type # "final"
  <2>1. Decisive(h, Coming[i]) BY DEF Returns
  <2>2. "ack" # "final" /\ "error" # "final" OBVIOUS
  <2>. QED BY <2>1, <2>2, EventItems DEF Decisive
<1>7. \A j \in 1..Len(Coming') : Coming'[j] = Error
  <2>1. \A j \in 1..Len(Coming) : i < j => Coming[j] = Error
    BY <1>1, <1>3, <1>6, CleanFacts
  <2>2. \A j \in 1..Len(Coming') : i < j + i BY <1>2
  <2>. QED BY <1>2, <2>1, <2>2
<1>8. ~ (service' = "up" /\ requests' # <<>>)
  <2>1. Len(Coming) # 0 BY <1>3
  <2>2. Len(<<>>) = 0 OBVIOUS
  <2>3. Coming # <<>> BY <2>1, <2>2
  <2>. QED BY <1>1, <2>3, CleanFacts
<1>9. \A j \in 1..Len(Coming') : Coming'[j].type = "error"
  BY <1>7, EventItems
<1>10. segments \in Seq(Numbers) /\ got[h] \in Seq(Numbers) /\ finals \in Seq(Numbers)
       /\ Coming \in Seq(Events) /\ Coming' \in Seq(Events)
  BY WholeType, ComingTypeNext
<1>11. CASE Coming[i] = Error /\ UNCHANGED segments
  <2>1. service = "failed" /\ i = Len(Coming) BY <1>3, <1>11 DEF ErrorInv
  <2>2. Told'
    <3>1. DOMAIN Coming' = {} BY <1>2, <2>1
    <3>. QED BY <2>1, <3>1 DEF Told
  <2>3. IsPrefix(segments', finals') BY <1>1, <1>11, CleanFacts
  <2>. QED BY <1>4, <1>7, <1>8, <1>9, <2>2, <2>3, CleanNext
<1>12. CASE segments' = segments \o got[h] \o Transcripts(SubSeq(events, 1, i))
  <2> DEFINE p == SubSeq(events, 1, i)
             t == Transcripts(p)
  <2>1. p \in Seq(Events) /\ Len(p) = i /\ \A j \in 1..i : p[j] = events[j]
    BY Cutting
  <2>2. Coming = Join(p, Coming')
    <3> DEFINE q == Join(p, Coming')
    <3> HIDE DEF p
    <3>1. /\ q \in Seq(Events) /\ Len(q) = i + Len(Coming')
          /\ \A n \in 1..i + Len(Coming') :
                q[n] = IF n <= Len(p) THEN p[n] ELSE Coming'[n - Len(p)]
      <4>1. /\ q \in Seq(Events) /\ Len(q) = Len(p) + Len(Coming')
            /\ \A n \in 1..Len(p) + Len(Coming') :
                  q[n] = IF n <= Len(p) THEN p[n] ELSE Coming'[n - Len(p)]
        BY <1>10, <2>1, JoinProperties
      <4>. QED BY <2>1, <4>1
    <3> HIDE DEF q
    <3>2. Len(Coming) = i + Len(Coming') /\ Len(Coming') \in Nat BY <1>2, <1>10
    <3>3. ASSUME NEW n \in 1..i + Len(Coming') PROVE q[n] = Coming[n]
      <4>1. CASE n <= i
        <5>1. n \in 1..i /\ n \in 1..Len(Coming) BY <1>2, <3>2, <4>1
        <5>2. Coming[n] = events[n]
          <6>1. i <= Len(events) BY ComingType
          <6>2. n <= Len(events) BY <1>2, <4>1, <6>1, ComingType
          <6>. QED BY <5>1, <6>2, ComingType
        <5>. QED BY <2>1, <3>1, <4>1, <5>1, <5>2
      <4>2. CASE ~ n <= i
        <5>1. n - i \in 1..Len(Coming') /\ n - i + i = n BY <1>2, <3>2, <4>2
        <5>2. q[n] = Coming'[n - i] BY <2>1, <3>1, <4>2
        <5>3. Coming'[n - i] = Coming[n - i + i] BY <1>2, <5>1
        <5>. QED BY <5>1, <5>2, <5>3
      <4>. QED BY <4>1, <4>2
    <3>4. Coming = q BY <1>10, <3>1, <3>2, <3>3, SeqEqual
    <3>. QED BY <3>4 DEF q
  <2>3. Transcripts(Coming') = <<>>
    <3>1. \A j \in 1..Len(Coming') : Coming'[j].type # "final" BY <1>9
    <3>. QED BY <1>10, <3>1, TranscriptsNone
  <2> HIDE DEF p
  <2>4. t \in Seq(Numbers) /\ Transcripts(Coming) = t
    <3>1. t \in Seq(Numbers) BY <2>1, TranscriptsProperties
    <3>2. Transcripts(Join(p, Coming')) = Join(t, Transcripts(Coming'))
      BY <1>10, <2>1, TranscriptsJoin
    <3>. QED BY <2>2, <2>3, <3>1, <3>2, JoinTwice
  <2>5. segments' = Join(Join(segments, got[h]), t) BY <1>12 DEF Join, p
  <2>6. segments' = finals BY <1>1, <2>4, <2>5 DEF Whole
  <2>7. IsPrefix(segments', finals') BY <1>10, <2>6, PrefixJoin
  <2>8. \A k \in Senders : Whole(k)'
    <3>1. Join(Join(finals, <<>>), <<>>) = finals BY <1>10, JoinTwice
    <3>. QED BY <1>5, <2>3, <2>6, <3>1 DEF Whole
  <2>. QED BY <1>4, <1>7, <1>8, <1>9, <2>7, <2>8, CleanNext
<1>13. \/ Coming[i] = Error /\ UNCHANGED segments
       \/ segments' = segments \o got[h] \o Transcripts(SubSeq(events, 1, i))
  BY DEF Returns
<1>. QED BY <1>11, <1>12, <1>13

LEMMA StoryStep ==
  ASSUME TypeInv, TypeInv', RequestInv, WaitInv, WaitInv', ErrorInv, StoryInv, [Next]_vars
  PROVE  StoryInv'
<1> SUFFICES ASSUME clean' PROVE CleanInv' BY DEF StoryInv
<1>1. ASSUME NEW h \in Senders, Accept(h) \/ End(h) PROVE CleanInv'
  <2>1. pc[h] = "idle" /\ \E n, end : Send(h, n, end) BY <1>1 DEF Accept, End
  <2>. QED BY <2>1, SendStory
<1>2. CASE Close
  <2>1. Keeps BY <1>2, QuietSteps
  <2>2. /\ pc' = [pc EXCEPT ![Manager] = "gone"] /\ pc[Manager] = "idle"
        /\ UNCHANGED <<want, requests, clean>>
    BY <1>2 DEF Close, stream, history
  <2>3. \A k \in Senders : Busy(k)' <=> Busy(k) BY <2>2 DEF Busy, Senders, TypeInv
  <2>. QED BY <2>1, <2>2, <2>3, QuietStory
<1>3. CASE Read
  <2>1. Keeps BY <1>3, QuietSteps
  <2>2. UNCHANGED <<pc, want, requests, clean>> BY <1>3 DEF Read, history
  <2>3. \A k \in Senders : Busy(k)' <=> Busy(k) BY <2>2 DEF Busy
  <2>. QED BY <2>1, <2>2, <2>3, QuietStory
<1>4. CASE UNCHANGED vars
  <2>1. Keeps BY <1>4, QuietSteps
  <2>2. UNCHANGED <<pc, want, requests, clean>>
    BY <1>4 DEF vars, waiting, stream, history
  <2>3. \A k \in Senders : Busy(k)' <=> Busy(k) BY <2>2 DEF Busy
  <2>. QED BY <2>1, <2>2, <2>3, QuietStory
<1>5. CASE Serve BY <1>5, ServeStory
<1>6. CASE Fail BY <1>6, FailStory
<1>7. CASE Get
  <2> DEFINE h == Head(ready)
  <2>1. /\ h \in Senders /\ ready # <<>>
        /\ UNCHANGED <<requests, service, wire, heard, finals, clean>>
        /\ \/ Sleep(h) /\ Drops(Len(events)) /\ Coming' = wire
           \/ \E i \in DOMAIN events : Returns(h, i)
    BY <1>7, GetSteps
  <2>2. Busy(h)
    <3>1. /\ Split(ready, getters, BusyOnes)
          /\ ready \in Seq(Senders) /\ getters \in Seq(Senders)
      BY WaitSplit DEF TypeInv
    <3>2. h \in BusyOnes BY <2>1, <3>1, SplitLeaves
    <3>. QED BY <3>2 DEF BusyOnes
  <2> HIDE DEF h
  <2>. QED BY <2>1, <2>2, SleepStory, ReturnStory
<1>. QED BY <1>1, <1>2, <1>3, <1>4, <1>5, <1>6, <1>7 DEF Next

LEMMA RequestStep ==
  ASSUME TypeInv, TypeInv', RequestInv, [Next]_vars
  PROVE  RequestInv'
<1>1. ASSUME NEW h \in Senders, Accept(h) PROVE RequestInv'
  BY <1>1, SendRequests DEF Accept
<1>2. ASSUME NEW h \in Senders, End(h) PROVE RequestInv'
  BY <1>2, SendRequests DEF End
<1>3. CASE Close BY <1>3 DEF Close, RequestInv, session, stream, history
<1>4. CASE Serve BY <1>4, ServeRequests
<1>5. CASE Fail BY <1>5 DEF Fail, RequestInv, session, history
<1>6. CASE Read BY <1>6 DEF Read, RequestInv, session, history
<1>7. CASE Get BY <1>7 DEF Get, Sleep, Return, RequestInv, session
<1>8. CASE UNCHANGED vars BY <1>8 DEF vars, RequestInv, session, stream, history
<1>. QED BY <1>1, <1>2, <1>3, <1>4, <1>5, <1>6, <1>7, <1>8 DEF Next

-----------------------------------------------------------------------------
(* The inductive invariant.                                                *)

IInv == /\ TypeInv /\ RequestInv /\ HeardInv /\ WaitInv /\ OrderInv
        /\ ErrorInv /\ StoryInv

LEMMA InitIInv == ASSUME Init PROVE IInv
<1>1. TypeInv BY InitType
<1>2. /\ pc = [h \in Senders |-> "idle"] /\ got = [h \in Senders |-> <<>>]
      /\ ready = <<>> /\ getters = <<>> /\ requests = <<>> /\ service = "up"
      /\ wire = <<>> /\ events = <<>> /\ segments = <<>> /\ finals = <<>>
      /\ heard = -1 /\ acked = -1 /\ last = -1
  BY DEF Init
<1>3. Coming = <<>> /\ DOMAIN Coming = {} /\ Len(Coming) = 0
  <2>1. Coming = <<>> BY <1>2 DEF Coming
  <2>. QED BY <2>1
<1>4. RequestInv BY <1>2 DEF RequestInv
<1>5. HeardInv BY <1>2, <1>3 DEF HeardInv, AckedIsHeard
<1>6. \A h \in Senders : ~Busy(h) /\ got[h] = <<>> BY <1>2 DEF Busy
<1>7. WaitInv
  <2>1. Split(ready, getters, BusyOnes) BY <1>2, <1>6 DEF Split, BusyOnes
  <2>. QED BY <1>1, <1>6, <2>1, WaitSplit
<1>8. OrderInv BY <1>3, <1>6 DEF OrderInv, Ascends
<1>9. ErrorInv BY <1>3 DEF ErrorInv
<1>10. StoryInv
  <2>1. OneSender /\ OneFrame BY <1>2, <1>3, <1>6 DEF OneSender, OneFrame
  <2>2. IsPrefix(segments, finals)
    <3>1. <<>> \in Seq(Numbers) OBVIOUS
    <3>. QED BY <1>2, <3>1, PrefixJoin
  <2>3. Transcripts(Coming) = <<>>
    <3>1. <<>> \in Seq(Events) /\ \A i \in 1..Len(<<>>) : <<>>[i].type # "final" OBVIOUS
    <3>2. Transcripts(<<>>) = <<>> BY <3>1, TranscriptsNone
    <3>. QED BY <1>3, <3>2
  <2>4. \A h \in Senders : segments \o got[h] \o Transcripts(Coming) = finals
    BY <1>2, <1>6, <2>3
  <2>. QED BY <1>6, <2>1, <2>2, <2>4 DEF StoryInv, CleanInv, AllKept
<1>. QED BY <1>1, <1>4, <1>5, <1>7, <1>8, <1>9, <1>10 DEF IInv

LEMMA StepIInv == ASSUME IInv, [Next]_vars PROVE IInv'
<1>1. TypeInv' BY StepType DEF IInv
<1>2. WaitInv' BY <1>1, WaitStep DEF IInv
<1>. QED BY <1>1, <1>2, RequestStep, HeardStep, OrderStep, ErrorStep, StoryStep DEF IInv

THEOREM Invariance == Spec => []IInv
<1>1. Init => IInv BY InitIInv
<1>2. IInv /\ [Next]_vars => IInv' BY StepIInv
<1>. QED BY <1>1, <1>2, PTL DEF Spec

(* A frame whose send() has returned has been handled, every waiting       *)
(* sender has one place among the getters of the queue, and no sender can  *)
(* have received more transcripts than there are frames: client.py         *)
(* AsrRpcStream.send waits for the acknowledgement of its own frame.       *)
THEOREM AcknowledgementsAreTrue == Spec => []AcksAreTrue
<1>1. IInv => AcksAreTrue
  <2> SUFFICES ASSUME IInv PROVE TypeOK /\ AckedIsHeard BY DEF AcksAreTrue
  <2>1. AckedIsHeard BY DEF IInv, HeardInv
  <2>2. ASSUME NEW h \in Senders PROVE Len(got[h]) <= MaxFrame + 2
    <3> DEFINE s == got[h]
               n == Len(s)
    <3>1. s \in Seq(Numbers) /\ n \in Nat /\ s \in [1..n -> Numbers]
      <4>1. s \in Seq(Numbers) BY DEF IInv, TypeInv
      <4>. QED BY <4>1
    <3>2. Ascends(s) BY DEF IInv, OrderInv
    <3> HIDE DEF s, n
    <3>3. \A i, j \in 1..n : s[i] = s[j] => i = j
      <4>1. \A i \in 1..n : s[i] \in Int BY <3>1 DEF Numbers
      <4>2. \A i, j \in 1..n : i < j => s[i] < s[j] BY <3>1, <3>2 DEF Ascends
      <4>. QED BY <4>1, <4>2
    <3>4. IsFiniteSet(1..n) /\ Cardinality(1..n) = n BY <3>1, FS_Interval
    <3>5. IsFiniteSet(Numbers) /\ Cardinality(Numbers) = MaxFrame + 2
      <4>1. 0 \in Int /\ MaxFrame + 1 \in Int /\ ~ 0 > MaxFrame + 1 OBVIOUS
      <4>2. IsFiniteSet(0..MaxFrame + 1) /\ Cardinality(0..MaxFrame + 1) = MaxFrame + 1 - 0 + 1
        BY <4>1, FS_Interval
      <4>. QED BY <4>2 DEF Numbers
    <3>6. ~ Cardinality(Numbers) < Cardinality(1..n)
      BY <3>1, <3>3, <3>4, <3>5, FS_PigeonHole
    <3>7. n <= MaxFrame + 2 BY <3>1, <3>4, <3>5, <3>6
    <3>. QED BY <3>7 DEF n, s
  <2>3. TypeInv /\ WaitInv BY DEF IInv
  <2>. QED BY <2>1, <2>2, <2>3 DEF TypeInv, WaitInv, TypeOK
<1>. QED BY <1>1, Invariance, PTL

(* While no two senders overlap, the segments of the session are the       *)
(* transcripts of the service in order, and all of them between two sends. *)
THEOREM NoTranscriptIsLost == Spec => []TranscriptsBecomeSegments
<1>1. IInv => TranscriptsBecomeSegments
  <2> SUFFICES ASSUME IInv, clean
               PROVE  /\ IsPrefix(segments, finals)
                      /\ (\A h \in Senders : ~Busy(h)) /\ service # "failed" =>
                            segments = finals
    BY DEF TranscriptsBecomeSegments
  <2>1. TypeInv /\ CleanInv /\ ErrorInv /\ WaitInv BY DEF IInv, StoryInv
  <2>2. IsPrefix(segments, finals) BY <2>1, CleanFacts
  <2>3. ASSUME \A h \in Senders : ~Busy(h), service # "failed"
        PROVE  segments = finals
    <3>1. \A i \in 1..Len(Coming) : Coming[i] = Error /\ Coming[i].type # "final"
      BY <2>1, <2>3, CleanFacts, EventItems
    <3>2. Manager \in Senders BY DEF Senders
    <3>3. ~Told BY <2>3 DEF Told
    <3>4. Whole(Manager) BY <2>1, <2>3, <3>2, <3>3, CleanFacts
    <3>5. got[Manager] = <<>> BY <2>1, <2>3, <3>2 DEF WaitInv
    <3>6. Transcripts(Coming) = <<>>
      <4>1. Coming \in Seq(Events) BY <2>1, ComingType
      <4>. QED BY <3>1, <4>1, TranscriptsNone
    <3>7. segments \in Seq(Numbers) BY <2>1, <3>2, WholeType
    <3>. QED BY <3>4, <3>5, <3>6, <3>7, JoinTwice DEF Whole
  <2>. QED BY <2>2, <2>3
<1>. QED BY <1>1, Invariance, PTL
=============================================================================
