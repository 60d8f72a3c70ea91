------------------------- MODULE RealtimeCallProofs -------------------------
(***************************************************************************)
(* Theorems about RealtimeCall for every number of connections, frames,    *)
(* clicks and losses, every size of the buffer and every set of faults.    *)
(***************************************************************************)
EXTENDS RealtimeCall, SubsequencesProofs

LEMMA Bounds ==
  /\ Connections \in Nat /\ Connections > 0 /\ BufferLimit \in Nat /\ BufferLimit > 0
  /\ MaxAttempts \in Nat /\ MaxFrames \in Nat /\ MaxClicks \in Nat /\ MaxDrops \in Nat
BY ConstantsAssumption

USE Bounds

-----------------------------------------------------------------------------
(* The inductive invariant.                                                *)

UpItems == {m \in Messages : m.sequence \in -1..(sequence - 1)
                             /\ (m.type = "frame" => m.sequence >= 0)}
DownItems == {m \in Messages : m.sequence \in -1..lastSequence}

(* What is under way: frames that were captured, and answers that do not   *)
(* go beyond what is in the recording.                                     *)
TypeInv ==
    /\ TypeOK
    /\ lastAck \in -1..lastSequence /\ lastSequence < sequence
    /\ buffered \in SUBSET (0..(sequence - 1)) /\ IsFiniteSet(buffered)
    /\ socket = opened
    /\ up \in [Conn -> Seq(UpItems)] /\ down \in [Conn -> Seq(DownItems)]

(* The recording ends with the last frame that was accepted.               *)
RecInv ==
    /\ lastSequence < 0 <=> recording = <<>>
    /\ \A i \in 1..Len(recording) :
          recording[i] = lastSequence - (Len(recording) - i)

(* What is neither kept nor accepted was pushed out of a full buffer.      *)
Pushed(n) == Cardinality(buffered) = BufferLimit /\ \A m \in buffered : n < m
KeptInv ==
    \A n \in 0..(sequence - 1) :
        n \in buffered \/ n <= lastSequence \/ (sequence > BufferLimit /\ Pushed(n))

(* The ends of a connection.                                               *)
EndsInv ==
    \A k \in Conn :
        /\ k > opened <=> readyState[k] = "none"
        /\ readyState[k] \in {"none", "connecting", "closing"} =>
              up[k] = <<>> /\ down[k] = <<>> /\ handler[k] = "none"
        /\ readyState[k] \in {"none", "connecting"} => ~cut[k]
        /\ readyState[k] \in {"closing", "closed"} => cut[k] /\ down[k] = <<>>

(* The kinds of the messages of a queue, and of those after the first.     *)
Types(q) == {q[i].type : i \in 1..Len(q)}
Later(q) == IF q = <<>> THEN {} ELSE Types(Tail(q))

(* The first connection alone starts the session, and once.                *)
StartInv ==
    /\ readyState[1] \in {"none", "connecting", "closing"} => session = "none"
    /\ \A k \in Conn :
          /\ "start_session" \in Types(up[k]) =>
                k = 1 /\ session = "none" /\ handler[1] # "starting"
          /\ "start_session" \notin Later(up[k])
          /\ handler[k] = "starting" => k = 1 /\ session = "none"
    /\ status = "idle" => opened = 0

(* Before the session is there, the first connection is the only one, and  *)
(* nothing has been answered.                                              *)
Talking == {"recording", "paused", "ending", "ended"}
NoneInv ==
    session = "none" =>
        /\ opened <= 1 /\ timers = 0 /\ recording = <<>> /\ status \notin Talking
        /\ \A k \in Conn : down[k] = <<>>
        /\ handler[1] = "reading" =>
              up[1] # <<>> /\ Head(up[1]).type = "start_session"

(* Once another connection is open or to be opened, the first is over.     *)
FirstInv == opened >= 2 \/ timers > 0 => readyState[1] = "closed"

(* Messages the first connection never carries, and those of a pause.  The *)
(* answer to start_session is the first that is sent.                      *)
WayInv ==
    /\ "resume_session_connection" \notin Types(up[1])
    /\ "session_started" \in Types(down[1]) => status \notin Talking
    /\ "session_started" \notin Later(down[1])

PauseInv ==
    clicks = 0 =>
        /\ ~paused
        /\ \A k \in Conn :
              /\ "pause_session" \notin Types(up[k])
              /\ "resume_session" \notin Types(up[k])
              /\ "session_paused" \notin Types(down[k])
              /\ "session_resumed" \notin Types(down[k])

(* Frame n or a later one is in the recording, or comes with the first m   *)
(* messages of q, or nothing has been recorded that it could follow.       *)
Covered(q, m, n, last, fresh) ==
    \/ n <= last
    \/ \E j \in 1..m : q[j].type = "frame" /\ q[j].sequence >= n
    \/ fresh /\ \A j \in 1..m : q[j].type # "frame"

Follows(q, last, fresh) ==
    \A i \in 1..Len(q) : q[i].type = "frame" =>
        Covered(q, i - 1, q[i].sequence - 1, last, fresh)

EndFollows(q, n, last, fresh) ==
    \A i \in 1..Len(q) : q[i].type = "end_session" => Covered(q, i - 1, n, last, fresh)

Quiet == clicks = 0 /\ sequence <= BufferLimit
Fresh == lastSequence < 0 /\ opened <= 1
Counts(k) == k >= 2 \/ opened <= 1

Current(k) == k = socket /\ readyState[k] = "open" /\ ~cut[k]

(* No message of connection k finds a gap, and none that is sent next.     *)
(* The handler of a first connection that was lost is excepted, which      *)
(* tells nobody.                                                           *)
GapAt(k) ==
    /\ Counts(k) => Follows(up[k], lastSequence, Fresh)
    /\ EndFollows(up[k], sequence - 1, lastSequence, Fresh)
    /\ Current(k) => Covered(up[k], Len(up[k]), sequence - 1, lastSequence, Fresh)

GapInv == Quiet /\ session # "closed" => \A k \in Conn : GapAt(k)

(* After End nothing is captured, and on the first connection nothing is   *)
(* begun again.                                                            *)
EndInv ==
    /\ session = "closed" => ~capturing
    /\ \A k \in Conn : "end_session" \in Types(up[k]) =>
          /\ ~capturing /\ session # "none"
          /\ k = 1 /\ clicks = 0 =>
                /\ opened = 1 /\ timers = 0 /\ status \notin {"recording", "paused"}
                /\ "session_started" \notin Types(down[1])

(* A session that is closed has everything.                                *)
ClosedInv ==
    /\ session = "closed" /\ Quiet => lastSequence < 0 \/ lastSequence >= sequence - 1
    /\ \A k \in Conn :
          /\ handler[k] \in {"ending", "endingAgain"} => session = "closed"
          /\ "session_ended" \in Types(down[k]) => session = "closed" /\ jobs > 0
    /\ status = "ended" => session = "closed" /\ jobs > 0

IInv ==
    /\ TypeInv /\ RecInv /\ KeptInv /\ EndsInv /\ StartInv /\ NoneInv
    /\ FirstInv /\ WayInv /\ PauseInv /\ GapInv /\ EndInv /\ ClosedInv

-----------------------------------------------------------------------------
(* Queues.                                                                 *)

LEMMA TypesEmpty == Types(<<>>) = {} /\ Later(<<>>) = {}
BY DEF Types, Later

LEMMA TypesTail ==
  ASSUME NEW S, NEW q \in Seq(S), q # <<>>
  PROVE  /\ Head(q) \in S /\ Tail(q) \in Seq(S)
         /\ Types(q) = {Head(q).type} \cup Types(Tail(q))
         /\ Later(q) = Types(Tail(q)) /\ Later(Tail(q)) \subseteq Later(q)
<1>1. /\ Head(q) \in S /\ Tail(q) \in Seq(S) /\ Len(Tail(q)) = Len(q) - 1
      /\ Len(q) \in Nat /\ Len(q) > 0 /\ Head(q) = q[1]
      /\ \A i \in 1..Len(Tail(q)) : Tail(q)[i] = q[i + 1]
  BY HeadTailProperties
<1> DEFINE t == Tail(q)
<1>2. ASSUME NEW x PROVE x \in Types(q) <=> x = Head(q).type \/ x \in Types(t)
  <2>1. ASSUME x \in Types(q) PROVE x = Head(q).type \/ x \in Types(t)
    <3>1. PICK i \in 1..Len(q) : x = q[i].type BY <2>1 DEF Types
    <3>2. CASE i = 1 BY <1>1, <3>1, <3>2
    <3>3. CASE i # 1
      <4>1. i - 1 \in 1..Len(t) BY <1>1, <3>3
      <4>2. t[i - 1] = q[i] BY <1>1, <4>1
      <4>. QED BY <3>1, <4>1, <4>2 DEF Types
    <3>. QED BY <3>2, <3>3
  <2>2. ASSUME x = Head(q).type PROVE x \in Types(q)
    BY <1>1, <2>2 DEF Types
  <2>3. ASSUME x \in Types(t) PROVE x \in Types(q)
    <3>1. PICK i \in 1..Len(t) : x = t[i].type BY <2>3 DEF Types
    <3>2. i + 1 \in 1..Len(q) /\ t[i] = q[i + 1] BY <1>1
    <3>. QED BY <3>1, <3>2 DEF Types
  <2>. QED BY <2>1, <2>2, <2>3
<1>3. Types(q) = {Head(q).type} \cup Types(t) BY <1>2
<1>4. Later(q) = Types(t) BY DEF Later
<1>5. Later(t) \subseteq Types(t)
  <2>1. CASE t = <<>> BY <2>1 DEF Later
  <2>2. CASE t # <<>>
    <3>1. /\ Len(Tail(t)) = Len(t) - 1 /\ Len(t) \in Nat
          /\ \A i \in 1..Len(Tail(t)) : Tail(t)[i] = t[i + 1]
      BY <1>1, <2>2, HeadTailProperties
    <3>2. Later(t) = Types(Tail(t)) BY <2>2 DEF Later
    <3>3. ASSUME NEW x \in Types(Tail(t)) PROVE x \in Types(t)
      <4>1. PICK i \in 1..Len(Tail(t)) : x = Tail(t)[i].type BY <3>3 DEF Types
      <4>2. i + 1 \in 1..Len(t) BY <3>1
      <4>. QED BY <3>1, <4>1, <4>2 DEF Types
    <3>. QED BY <3>2, <3>3
  <2>. QED BY <2>1, <2>2
<1>. QED BY <1>1, <1>3, <1>4, <1>5

LEMMA JoinItems ==
  ASSUME NEW S, NEW q \in Seq(S), NEW r \in Seq(S)
  PROVE  /\ Join(q, r) \in Seq(S) /\ Len(Join(q, r)) = Len(q) + Len(r)
         /\ Len(q) \in Nat /\ Len(r) \in Nat
         /\ \A i \in 1..Len(q) : Join(q, r)[i] = q[i]
         /\ \A i \in 1..Len(r) : Join(q, r)[Len(q) + i] = r[i]
BY DEF Join

LEMMA JoinOne ==
  ASSUME NEW S, NEW m \in S, NEW r \in Seq(S)
  PROVE  /\ Len(Join(<<m>>, r)) = Len(r) + 1 /\ Join(<<m>>, r)[1] = m
         /\ \A i \in 1..Len(r) : Join(<<m>>, r)[1 + i] = r[i]
<1> DEFINE c == <<m>>
<1>0. c \in Seq(S) OBVIOUS
<1>1. Len(c) = 1 /\ c[1] = m OBVIOUS
<1> HIDE DEF c
<1>2. /\ Join(c, r) \in Seq(S) /\ Len(Join(c, r)) = Len(c) + Len(r)
      /\ Len(c) \in Nat /\ Len(r) \in Nat
      /\ \A i \in 1..Len(c) : Join(c, r)[i] = c[i]
      /\ \A i \in 1..Len(r) : Join(c, r)[Len(c) + i] = r[i]
  BY <1>0 DEF Join
<1>3. Len(Join(c, r)) = Len(r) + 1 BY <1>1, <1>2
<1>4. Join(c, r)[1] = m
  <2>1. 1 \in 1..Len(c) BY <1>1
  <2>. QED BY <1>1, <1>2, <2>1
<1>. QED BY <1>1, <1>2, <1>3, <1>4 DEF c

LEMMA JoinHead ==
  ASSUME NEW S, NEW q \in Seq(S), NEW r \in Seq(S), q # <<>>
  PROVE  Join(q, r) # <<>> /\ Head(Join(q, r)) = Head(q)
<1>1. /\ Join(q, r) \in Seq(S) /\ Len(Join(q, r)) = Len(q) + Len(r)
      /\ Len(q) \in Nat /\ Len(r) \in Nat
      /\ \A i \in 1..Len(q) : Join(q, r)[i] = q[i]
  BY JoinItems
<1>2. Len(q) > 0 OBVIOUS
<1>3. Join(q, r)[1] = q[1] BY <1>1, <1>2
<1>. QED BY <1>1, <1>2, <1>3

LEMMA TypesJoin ==
  ASSUME NEW S, NEW q \in Seq(S), NEW r \in Seq(S)
  PROVE  /\ Types(Join(q, r)) = Types(q) \cup Types(r)
         /\ Later(Join(q, r)) \subseteq Later(q) \cup Types(r)
<1> DEFINE t == Join(q, r)
<1>1. /\ t \in Seq(S) /\ Len(t) = Len(q) + Len(r) /\ Len(q) \in Nat /\ Len(r) \in Nat
      /\ \A i \in 1..Len(q) : t[i] = q[i]
      /\ \A i \in 1..Len(r) : t[Len(q) + i] = r[i]
  BY DEF Join
<1> HIDE DEF t
<1>2. ASSUME NEW i \in 1..Len(t)
      PROVE  \/ i \in 1..Len(q)
             \/ i - Len(q) \in 1..Len(r) /\ t[i] = r[i - Len(q)]
  <2>1. CASE i <= Len(q) BY <1>1, <2>1
  <2>2. CASE i > Len(q)
    <3>1. i - Len(q) \in 1..Len(r) /\ Len(q) + (i - Len(q)) = i BY <1>1, <2>2
    <3>. QED BY <1>1, <3>1
  <2>. QED BY <1>1, <2>1, <2>2
<1>3. Types(t) \subseteq Types(q) \cup Types(r)
  <2>1. ASSUME NEW x \in Types(t) PROVE x \in Types(q) \cup Types(r)
    <3>1. PICK i \in 1..Len(t) : x = t[i].type BY <2>1 DEF Types
    <3>. QED BY <1>1, <1>2, <3>1 DEF Types
  <2>. QED BY <2>1
<1>4. Types(q) \subseteq Types(t)
  <2>1. \A i \in 1..Len(q) : i \in 1..Len(t) BY <1>1
  <2>. QED BY <1>1, <2>1 DEF Types
<1>5. Types(r) \subseteq Types(t)
  <2>1. \A i \in 1..Len(r) : Len(q) + i \in 1..Len(t) BY <1>1
  <2>. QED BY <1>1, <2>1 DEF Types
<1>6. Later(t) \subseteq Later(q) \cup Types(r)
  <2>1. CASE t = <<>> BY <2>1, TypesEmpty
  <2>2. CASE t # <<>> /\ q = <<>>
    <3>1. Types(q) = {} BY <2>2, TypesEmpty
    <3>2. Later(t) \subseteq Types(t) BY <1>1, <2>2, TypesTail
    <3>. QED BY <1>3, <3>1, <3>2
  <2>3. CASE t # <<>> /\ q # <<>>
    <3>1. /\ Later(t) = Types(Tail(t)) /\ Later(q) = Types(Tail(q))
          /\ Len(Tail(t)) = Len(t) - 1 /\ Len(Tail(q)) = Len(q) - 1
          /\ \A i \in 1..Len(Tail(t)) : Tail(t)[i] = t[i + 1]
          /\ \A i \in 1..Len(Tail(q)) : Tail(q)[i] = q[i + 1]
      BY <1>1, <2>3, TypesTail, HeadTailProperties
    <3>2. ASSUME NEW x \in Types(Tail(t)) PROVE x \in Types(Tail(q)) \cup Types(r)
      <4>1. PICK i \in 1..Len(Tail(t)) : x = Tail(t)[i].type BY <3>2 DEF Types
      <4>2. i + 1 \in 1..Len(t) /\ x = t[i + 1].type BY <1>1, <3>1, <4>1
      <4>3. CASE i + 1 \in 1..Len(q)
        <5>1. i \in 1..Len(Tail(q)) BY <1>1, <3>1, <4>3
        <5>2. Tail(q)[i] = t[i + 1] BY <1>1, <3>1, <4>3, <5>1
        <5>. QED BY <4>2, <5>1, <5>2 DEF Types
      <4>4. CASE i + 1 - Len(q) \in 1..Len(r) /\ t[i + 1] = r[i + 1 - Len(q)]
        BY <4>2, <4>4 DEF Types
      <4>. QED BY <1>2, <4>2, <4>3, <4>4
    <3>. QED BY <3>1, <3>2
  <2>. QED BY <2>1, <2>2, <2>3
<1>. QED BY <1>3, <1>4, <1>5, <1>6 DEF t

LEMMA TypesAppend ==
  ASSUME NEW S, NEW q \in Seq(S), NEW m \in S
  PROVE  /\ Append(q, m) \in Seq(S)
         /\ Types(Append(q, m)) = Types(q) \cup {m.type}
         /\ Later(Append(q, m)) \subseteq Later(q) \cup {m.type}
         /\ q = <<>> => Later(Append(q, m)) = {}
<1>1. <<m>> \in Seq(S) /\ Append(q, m) = Join(q, <<m>>) BY DEF Join
<1>2. Types(<<m>>) = {m.type} BY DEF Types
<1>3. /\ Types(Append(q, m)) = Types(q) \cup {m.type}
      /\ Later(Append(q, m)) \subseteq Later(q) \cup {m.type}
  BY <1>1, <1>2, TypesJoin
<1>4. ASSUME q = <<>> PROVE Later(Append(q, m)) = {}
  <2>1. Append(q, m) = <<m>> /\ Tail(<<m>>) = <<>> BY <1>4
  <2>. QED BY <2>1, TypesEmpty DEF Later
<1>. QED BY <1>3, <1>4

LEMMA TypesPrefix ==
  ASSUME NEW S, NEW q \in Seq(S), NEW n \in 0..Len(q)
  PROVE  /\ SubSeq(q, 1, n) \in Seq(S)
         /\ Types(SubSeq(q, 1, n)) \subseteq Types(q)
         /\ Later(SubSeq(q, 1, n)) \subseteq Later(q)
<1> DEFINE t == SubSeq(q, 1, n)
<1>1. \A i \in 1..n : q[i] \in S OBVIOUS
<1>2. t \in Seq(S) /\ Len(t) = n /\ \A i \in 1..n : t[i] = q[i]
  BY <1>1, SubSeqProperties
<1> HIDE DEF t
<1>3. Types(t) \subseteq Types(q) BY <1>2 DEF Types
<1>4. Later(t) \subseteq Later(q)
  <2>1. CASE t = <<>> BY <2>1, TypesEmpty
  <2>2. CASE t # <<>>
    <3>1. q # <<>> BY <1>2, <2>2
    <3>2. /\ Later(t) = Types(Tail(t)) /\ Later(q) = Types(Tail(q))
          /\ Len(Tail(t)) = n - 1 /\ Len(Tail(q)) = Len(q) - 1
          /\ \A i \in 1..Len(Tail(t)) : Tail(t)[i] = t[i + 1]
          /\ \A i \in 1..Len(Tail(q)) : Tail(q)[i] = q[i + 1]
      BY <1>2, <2>2, <3>1, TypesTail, HeadTailProperties
    <3>3. \A i \in 1..Len(Tail(t)) : i \in 1..Len(Tail(q)) /\ Tail(t)[i] = Tail(q)[i]
      BY <1>2, <3>2
    <3>. QED BY <3>2, <3>3 DEF Types
  <2>. QED BY <2>1, <2>2
<1>. QED BY <1>2, <1>3, <1>4 DEF t

-----------------------------------------------------------------------------
(* Type correctness.                                                       *)

Kinds == {"start_session", "resume_session_connection", "frame",
          "pause_session", "resume_session", "end_session",
          "session_started", "audio_ack", "session_paused",
          "session_resumed", "session_ended", "error"}

LEMMA MessageItems ==
  ASSUME NEW t \in Kinds, NEW n \in Nat \cup {-1}
  PROVE  /\ Message(t, n) \in Messages /\ Message(t, n).type = t
         /\ Message(t, n).sequence = n
BY DEF Message, Messages, Kinds

LEMMA SeqGrows ==
  ASSUME NEW S, NEW T, S \subseteq T, NEW q \in Seq(S)
  PROVE  q \in Seq(T)
<1>1. Len(q) \in Nat /\ q = [i \in 1..Len(q) |-> q[i]] BY LenProperties
<1>2. \A i \in 1..Len(q) : q[i] \in T OBVIOUS
<1>. QED BY <1>1, <1>2

(* Frames and acknowledgements are never taken back.                       *)
Grows == /\ sequence \in Nat /\ sequence' \in Nat /\ sequence <= sequence'
         /\ lastSequence \in Nat \cup {-1} /\ lastSequence' \in Nat \cup {-1}
         /\ lastSequence <= lastSequence'

LEMMA ItemsGrow ==
  ASSUME Grows
  PROVE  /\ UpItems \subseteq UpItems' /\ DownItems \subseteq DownItems'
         /\ Seq(UpItems) \subseteq Seq(UpItems') /\ Seq(DownItems) \subseteq Seq(DownItems')
<1>1. UpItems \subseteq UpItems' BY DEF UpItems, Grows
<1>2. DownItems \subseteq DownItems' BY DEF DownItems, Grows
<1>3. \A q \in Seq(UpItems) : q \in Seq(UpItems') BY <1>1, SeqGrows, Zenon
<1>4. \A q \in Seq(DownItems) : q \in Seq(DownItems') BY <1>2, SeqGrows, Zenon
<1>. QED BY <1>1, <1>2, <1>3, <1>4

Queues == up \in [Conn -> Seq(UpItems)] /\ down \in [Conn -> Seq(DownItems)]

(* The queues are correct when what the step does to them is.              *)
UpType == up' \in [Conn -> Seq(UpItems')]
DownType == down' \in [Conn -> Seq(DownItems')]

LEMMA QueuesKept ==
  ASSUME Queues, Grows
  PROVE  (UNCHANGED up => UpType) /\ (UNCHANGED down => DownType)
<1>1. \A k \in Conn : up[k] \in Seq(UpItems') /\ down[k] \in Seq(DownItems')
  BY ItemsGrow DEF Queues
<1>. QED BY <1>1 DEF Queues, UpType, DownType

LEMMA TakeType ==
  ASSUME Queues, Grows, NEW k \in Conn, up[k] # <<>>, Take(k)
  PROVE  UpType
<1>1. \A j \in Conn : up[j] \in Seq(UpItems') BY ItemsGrow DEF Queues
<1>2. Tail(up[k]) \in Seq(UpItems') BY <1>1, HeadTailProperties
<1>. QED BY <1>1, <1>2 DEF Queues, UpType, Take

LEMMA ConsumeType ==
  ASSUME Queues, Grows, NEW k \in Conn, down[k] # <<>>, Consume(k)
  PROVE  DownType
<1>1. \A j \in Conn : down[j] \in Seq(DownItems') BY ItemsGrow DEF Queues
<1>2. Tail(down[k]) \in Seq(DownItems') BY <1>1, HeadTailProperties
<1>. QED BY <1>1, <1>2 DEF Queues, DownType, Consume

LEMMA ReplyType ==
  ASSUME Queues, Grows, NEW k \in Conn, NEW t \in Kinds,
         NEW n \in Nat \cup {-1}, n <= lastSequence', Reply(k, t, n)
  PROVE  DownType
<1>1. \A j \in Conn : down[j] \in Seq(DownItems') BY ItemsGrow DEF Queues
<1>2. Message(t, n) \in DownItems'
  <2>1. n \in -1..lastSequence' BY DEF Grows
  <2>. QED BY <2>1, MessageItems DEF DownItems
<1>3. Append(down[k], Message(t, n)) \in Seq(DownItems')
  BY <1>1, <1>2, AppendProperties
<1>. QED BY <1>1, <1>3 DEF Queues, DownType, Reply

LEMMA SendType ==
  ASSUME Queues, Grows, NEW msgs \in Seq(UpItems'), Send(msgs)
  PROVE  UpType
<1>1. \A j \in Conn : up[j] \in Seq(UpItems') BY ItemsGrow DEF Queues
<1>2. \A j \in Conn : up[j] \o msgs \in Seq(UpItems') BY <1>1, ConcatProperties
<1>. QED BY <1>1, <1>2 DEF Queues, UpType, Send

(* The oldest and the newest of some numbers.                              *)
LEMMA MinOf ==
  ASSUME NEW n \in Nat, NEW F \in SUBSET (0..n), F # {}
  PROVE  Min(F) \in F /\ \A m \in F : Min(F) <= m
<1>1. \E m \in F : \A l \in F : m <= l
  <2>1. F \in SUBSET Int OBVIOUS
  <2>2. IsFiniteSet(0..n) BY FS_Interval
  <2>3. IsFiniteSet(F) BY <2>2, FS_Subset
  <2>4. /\ Cardinality(F) \in Nat
        /\ Ascending(F) \in Enumerations(Cardinality(F), F)
    BY <2>1, <2>3, AscendingEnumerates
  <2>5. Cardinality(F) # 0 BY <2>3, FS_EmptySet
  <2>6. 1 \in 1..Cardinality(F) BY <2>4, <2>5
  <2>7. Ascending(F)[1] \in F BY <2>4, <2>6 DEF Enumerations
  <2>8. ASSUME NEW l \in F PROVE Ascending(F)[1] <= l
    <3>1. PICK m \in 1..Cardinality(F) : Ascending(F)[m] = l BY <2>4 DEF Enumerations
    <3>2. CASE m = 1 BY <3>1, <3>2, <2>7
    <3>3. CASE m # 1
      <4>1. 1 < m BY <2>4, <3>3
      <4>2. Ascending(F)[1] < Ascending(F)[m] BY <2>4, <2>6, <4>1 DEF Enumerations
      <4>3. Ascending(F)[1] \in Int /\ l \in Int BY <2>1, <2>7
      <4>. QED BY <3>1, <4>2, <4>3
    <3>. QED BY <3>2, <3>3
  <2>. QED BY <2>7, <2>8
<1>. QED BY <1>1 DEF Min

LEMMA MaxOf ==
  ASSUME NEW a \in Int, NEW b \in Int
  PROVE  Max({a, b}) = IF a >= b THEN a ELSE b
<1>1. \E m \in {a, b} : \A l \in {a, b} : m >= l
  <2>1. CASE a >= b BY <2>1
  <2>2. CASE ~ a >= b BY <2>2
  <2>. QED BY <2>1, <2>2
<1>2. Max({a, b}) \in {a, b} /\ \A l \in {a, b} : Max({a, b}) >= l
  BY <1>1 DEF Max
<1>. QED BY <1>2

(* What is left of the buffer after a frame has been captured.             *)
LEMMA TrimKeeps ==
  ASSUME TypeInv
  PROVE  LET B == Trim(buffered \cup {sequence}) IN
         /\ B \in SUBSET (0..sequence) /\ IsFiniteSet(B)
         /\ Cardinality(B) <= BufferLimit
         /\ \/ B = buffered \cup {sequence}
            \/ /\ sequence >= BufferLimit /\ Cardinality(B) = BufferLimit
               /\ \E n \in buffered \cup {sequence} :
                     /\ B = (buffered \cup {sequence}) \ {n}
                     /\ \A m \in B : n < m
<1> DEFINE A == buffered \cup {sequence}
           B == Trim(A)
<1>1. /\ sequence \in Nat /\ buffered \in SUBSET (0..(sequence - 1))
      /\ IsFiniteSet(buffered) /\ Cardinality(buffered) <= BufferLimit
      /\ Cardinality(buffered) \in Nat
  BY FS_CardinalityType DEF TypeInv, TypeOK
<1>2. sequence \notin buffered BY <1>1
<1>3. IsFiniteSet(A) /\ Cardinality(A) = Cardinality(buffered) + 1
  BY <1>1, <1>2, FS_AddElement
<1>4. A \in SUBSET (0..sequence) /\ A # {} BY <1>1
<1>5. Cardinality(A) <= sequence + 1
  <2>1. IsFiniteSet(0..sequence) /\ Cardinality(0..sequence) = sequence + 1
    <3>1. 0 \in Int /\ sequence \in Int /\ sequence >= 0 BY <1>1
    <3>2. /\ IsFiniteSet(0..sequence)
          /\ Cardinality(0..sequence) = IF 0 > sequence THEN 0 ELSE sequence - 0 + 1
      BY <3>1, FS_Interval
    <3>. QED BY <3>1, <3>2
  <2>. QED BY <1>4, <2>1, FS_Subset
<1> HIDE DEF A
<1>6. CASE Cardinality(A) <= BufferLimit
  <2>1. B = A BY <1>6, <1>1, <1>3 DEF Trim
  <2>. QED BY <1>3, <1>4, <1>6, <2>1 DEF A
<1>7. CASE ~ Cardinality(A) <= BufferLimit
  <2>1. Cardinality(A) = BufferLimit + 1 /\ Cardinality(A) > BufferLimit
    BY <1>1, <1>3, <1>7
  <2>2. B = A \ {Min(A)} BY <2>1 DEF Trim
  <2>3. Min(A) \in A /\ \A m \in A : Min(A) <= m BY <1>1, <1>4, MinOf
  <2> DEFINE a == Min(A)
  <2> HIDE DEF a
  <2>4. IsFiniteSet(B) /\ Cardinality(B) = BufferLimit
    <3>1. IsFiniteSet(A \ {a}) /\ Cardinality(A \ {a}) = Cardinality(A) - 1
      BY <1>3, <2>3, FS_RemoveElement DEF a
    <3>. QED BY <2>1, <2>2, <3>1 DEF a
  <2>5. B \in SUBSET (0..sequence) BY <1>4, <2>2
  <2>6. \A m \in B : a < m
    <3>1. \A m \in A : m \in Int BY <1>4
    <3>2. a \in Int BY <3>1, <2>3 DEF a
    <3>. QED BY <2>2, <2>3, <3>1, <3>2 DEF a
  <2>7. sequence >= BufferLimit BY <1>1, <1>5, <2>1
  <2>. QED BY <2>2, <2>3, <2>4, <2>5, <2>6, <2>7 DEF a, A
<1>. QED BY <1>6, <1>7 DEF A

(* What a reconnection sends again: the frames above the last one that was *)
(* acknowledged, in order.                                                 *)
Unacknowledged == {n \in buffered : n > lastAck}

LEMMA ResendItems ==
  ASSUME TypeInv
  PROVE  /\ Cardinality(Unacknowledged) \in Nat
         /\ Resend \in [1..Cardinality(Unacknowledged) -> Unacknowledged]
         /\ \A i, j \in 1..Cardinality(Unacknowledged) : i < j => Resend[i] < Resend[j]
         /\ \A n \in Unacknowledged : \E i \in 1..Cardinality(Unacknowledged) : Resend[i] = n
         /\ Resend \in Seq(0..(sequence - 1)) /\ Len(Resend) = Cardinality(Unacknowledged)
<1>1. /\ Unacknowledged \in SUBSET (0..(sequence - 1)) /\ IsFiniteSet(Unacknowledged)
      /\ Unacknowledged \in SUBSET Int
  <2>1. Unacknowledged \subseteq buffered BY DEF Unacknowledged
  <2>2. /\ buffered \in SUBSET (0..(sequence - 1)) /\ IsFiniteSet(buffered)
        /\ sequence \in Nat
    BY DEF TypeInv, TypeOK
  <2>3. IsFiniteSet(Unacknowledged) BY <2>1, <2>2, FS_Subset
  <2>. QED BY <2>1, <2>2, <2>3
<1>2. Resend = Ascending(Unacknowledged) BY DEF Resend, Unacknowledged
<1>3. /\ Cardinality(Unacknowledged) \in Nat
      /\ Resend \in Enumerations(Cardinality(Unacknowledged), Unacknowledged)
  BY <1>1, <1>2, AscendingEnumerates
<1>4. Resend \in Seq(0..(sequence - 1)) /\ Len(Resend) = Cardinality(Unacknowledged)
  <2> DEFINE r == Resend
             n == Cardinality(Unacknowledged)
             T == 0..(sequence - 1)
  <2>1. r \in [1..n -> Unacknowledged] BY <1>3 DEF Enumerations
  <2>2. Unacknowledged \subseteq T BY <1>1
  <2>3. n \in Nat BY <1>3
  <2> HIDE DEF r, n, T
  <2>4. r \in [1..n -> T] BY <2>1, <2>2
  <2>5. r \in Seq(T) /\ Len(r) = n BY <2>3, <2>4
  <2>. QED BY <2>5 DEF r, n, T
<1>. QED BY <1>3, <1>4 DEF Enumerations

FrameMessages == [i \in DOMAIN Resend |-> Message("frame", Resend[i])]

LEMMA FirstMessagesItems ==
  ASSUME TypeInv, NEW k \in Conn
  PROVE  /\ FirstMessages(k) \in Seq(UpItems)
         /\ k = 1 => FirstMessages(k) = <<Message("start_session", -1)>>
         /\ k # 1 => FirstMessages(k) =
                        Join(<<Message("resume_session_connection", -1)>>, FrameMessages)
         /\ FrameMessages \in Seq(UpItems) /\ Len(FrameMessages) = Len(Resend)
         /\ \A i \in 1..Len(Resend) : /\ FrameMessages[i].type = "frame"
                                      /\ FrameMessages[i].sequence = Resend[i]
<1>1. sequence \in Nat BY DEF TypeInv, TypeOK
<1>2. \A t \in {"start_session", "resume_session_connection"} : Message(t, -1) \in UpItems
  <2>1. -1 \in -1..(sequence - 1) /\ -1 \in Nat \cup {-1} BY <1>1
  <2>2. ASSUME NEW t \in {"start_session", "resume_session_connection"}
        PROVE  Message(t, -1) \in UpItems
    <3>1. t \in Kinds /\ t # "frame" BY DEF Kinds
    <3>2. /\ Message(t, -1) \in Messages /\ Message(t, -1).type = t
          /\ Message(t, -1).sequence = -1
      BY <3>1, MessageItems
    <3>. QED BY <2>1, <3>1, <3>2 DEF UpItems
  <2>. QED BY <2>2
<1>3. /\ Resend \in Seq(0..(sequence - 1)) /\ DOMAIN Resend = 1..Len(Resend)
      /\ Len(Resend) \in Nat
  BY ResendItems, LenProperties
<1>4. ASSUME NEW n \in 0..(sequence - 1)
      PROVE  /\ Message("frame", n) \in UpItems /\ Message("frame", n).type = "frame"
             /\ Message("frame", n).sequence = n
  <2>1. n \in Nat \cup {-1} /\ n \in -1..(sequence - 1) /\ n >= 0 BY <1>1
  <2>2. "frame" \in Kinds BY DEF Kinds
  <2>3. /\ Message("frame", n) \in Messages /\ Message("frame", n).type = "frame"
        /\ Message("frame", n).sequence = n
    BY <2>1, <2>2, MessageItems
  <2>. QED BY <2>1, <2>3 DEF UpItems
<1>5. \A i \in 1..Len(Resend) : Resend[i] \in 0..(sequence - 1)
  BY <1>3, ElementOfSeq
<1>6. FrameMessages = [i \in 1..Len(Resend) |-> Message("frame", Resend[i])]
  BY <1>3 DEF FrameMessages
<1>7. /\ FrameMessages \in Seq(UpItems) /\ Len(FrameMessages) = Len(Resend)
      /\ \A i \in 1..Len(Resend) : /\ FrameMessages[i].type = "frame"
                                   /\ FrameMessages[i].sequence = Resend[i]
  <2>1. \A i \in 1..Len(Resend) : Message("frame", Resend[i]) \in UpItems BY <1>4, <1>5
  <2>2. FrameMessages \in Seq(UpItems) /\ Len(FrameMessages) = Len(Resend)
    <3> DEFINE f == [i \in 1..Len(Resend) |-> Message("frame", Resend[i])]
    <3>1. f \in [1..Len(Resend) -> UpItems] BY <2>1
    <3> HIDE DEF f
    <3>2. f \in Seq(UpItems) /\ Len(f) = Len(Resend) BY <1>3, <3>1
    <3>. QED BY <1>6, <3>2 DEF f
  <2>. QED BY <1>4, <1>5, <1>6, <2>2
<1>8. k = 1 => FirstMessages(k) = <<Message("start_session", -1)>> BY DEF FirstMessages
<1>9. k # 1 => FirstMessages(k) =
                  Join(<<Message("resume_session_connection", -1)>>, FrameMessages)
  BY DEF FirstMessages, FrameMessages, Join
<1>10. FirstMessages(k) \in Seq(UpItems)
  <2> DEFINE a == Message("start_session", -1)
             b == Message("resume_session_connection", -1)
  <2>1. a \in UpItems /\ b \in UpItems BY <1>2
  <2> HIDE DEF a, b
  <2>2. <<a>> \in Seq(UpItems) /\ <<b>> \in Seq(UpItems) BY <2>1
  <2>3. Join(<<b>>, FrameMessages) \in Seq(UpItems) BY <1>7, <2>2, JoinItems
  <2>. QED BY <1>8, <1>9, <2>2, <2>3 DEF a, b
<1>. QED BY <1>7, <1>8, <1>9, <1>10

(* What is correct beside the queues.                                      *)
BrowserType ==
    /\ status \in Active \cup {"idle", "ended", "error", "gone"}
    /\ capturing \in BOOLEAN /\ intentional \in BOOLEAN
    /\ sequence \in 0..MaxFrames
    /\ lastAck \in -1..lastSequence /\ lastSequence < sequence
    /\ lastSequence \in Nat \cup {-1}
    /\ buffered \in SUBSET (0..(sequence - 1)) /\ IsFiniteSet(buffered)
    /\ Cardinality(buffered) <= BufferLimit
    /\ socket = opened /\ opened \in 0..Connections
    /\ attempts \in 0..MaxAttempts /\ timers \in Nat

ServerType ==
    /\ readyState \in [Conn -> {"none", "connecting", "open", "closing", "closed"}]
    /\ cut \in [Conn -> BOOLEAN]
    /\ handler \in [Conn -> {"none", "reading", "starting", "ending",
                             "endingAgain", "done"}]
    /\ session \in {"none", "open", "closed"}
    /\ paused \in BOOLEAN /\ gated \in BOOLEAN
    /\ recording \in Seq(0..MaxFrames)
    /\ jobs \in Nat
    /\ clicks \in 0..MaxClicks /\ drops \in 0..MaxDrops

LEMMA TypeParts == TypeInv <=> BrowserType /\ ServerType /\ Queues
<1>1. ASSUME TypeInv PROVE BrowserType /\ ServerType /\ Queues
  <2>1. lastSequence \in -1..MaxFrames => lastSequence \in Nat \cup {-1} OBVIOUS
  <2>. QED BY <1>1, <2>1 DEF TypeInv, TypeOK, BrowserType, ServerType, Queues
<1>2. ASSUME BrowserType, ServerType, Queues PROVE TypeInv
  <2>1. UpItems \subseteq Messages /\ DownItems \subseteq Messages BY DEF UpItems, DownItems
  <2>2. \A k \in Conn : up[k] \in Seq(Messages) /\ down[k] \in Seq(Messages)
    BY <1>2, <2>1, SeqGrows DEF Queues
  <2>3. up \in [Conn -> Seq(Messages)] /\ down \in [Conn -> Seq(Messages)]
    BY <1>2, <2>2 DEF Queues
  <2>4. lastSequence \in -1..MaxFrames /\ lastAck \in -1..MaxFrames BY <1>2 DEF BrowserType
  <2>5. buffered \subseteq 0..MaxFrames BY <1>2 DEF BrowserType
  <2>6. socket \in 0..Connections BY <1>2 DEF BrowserType
  <2>7. TypeOK BY <1>2, <2>3, <2>4, <2>5, <2>6 DEF TypeOK, BrowserType, ServerType
  <2>. QED BY <1>2, <2>7 DEF TypeInv, BrowserType, Queues
<1>. QED BY <1>1, <1>2

LEMMA TypePartsNext ==
  ASSUME BrowserType', ServerType', UpType, DownType
  PROVE  TypeInv'
<1>1. Queues' BY DEF Queues, UpType, DownType
<1>2. UpItems' \subseteq Messages /\ DownItems' \subseteq Messages
  BY DEF UpItems, DownItems, Messages
<1>3. \A k \in Conn : up'[k] \in Seq(Messages) /\ down'[k] \in Seq(Messages)
  BY <1>2, SeqGrows DEF UpType, DownType
<1>4. up' \in [Conn -> Seq(Messages)] /\ down' \in [Conn -> Seq(Messages)]
  BY <1>3 DEF UpType, DownType
<1>5. lastSequence' \in -1..MaxFrames /\ lastAck' \in -1..MaxFrames BY DEF BrowserType
<1>6. buffered' \subseteq 0..MaxFrames
  <2>1. sequence' \in 0..MaxFrames /\ buffered' \in SUBSET (0..(sequence' - 1))
    BY DEF BrowserType
  <2>2. ASSUME NEW m \in buffered' PROVE m \in 0..MaxFrames
    <3>1. m \in 0..(sequence' - 1) BY <2>1
    <3>2. \A n \in 0..MaxFrames : \A l \in 0..(n - 1) : l \in 0..MaxFrames BY Bounds
    <3>. QED BY <2>1, <3>1, <3>2, Zenon
  <2>. QED BY <2>2
<1>7. socket' \in 0..Connections BY DEF BrowserType
<1>8. TypeOK'
  BY <1>4, <1>5, <1>6, <1>7 DEF TypeOK, BrowserType, ServerType, Messages
<1>. QED BY <1>1, <1>8 DEF TypeInv, BrowserType, Queues

(* socket.close().                                                         *)
LEMMA Shuts ==
  ASSUME NEW state
  PROVE  /\ Shut(state) \in {"closing", "closed"}
         /\ Shut(state) = "closing" => state \in {"connecting", "closing"}
BY DEF Shut

LEMMA CloseSocketAt ==
  ASSUME TypeInv, NEW states, DOMAIN states = Conn, CloseSocket(states), NEW j \in Conn
  PROVE  /\ readyState'[j] = IF j = socket THEN Shut(states[j]) ELSE states[j]
         /\ down'[j] = IF j = socket THEN <<>> ELSE down[j]
         /\ cut'[j] = IF j = socket THEN TRUE ELSE cut[j]
<1>1. DOMAIN cut = Conn /\ DOMAIN down = Conn BY TypeParts DEF ServerType, Queues
<1>. QED BY <1>1 DEF CloseSocket

(* What a connection that failed, and the reconnections it brings about,   *)
(* do to each connection.                                                  *)
LEMMA LossAt ==
  ASSUME TypeInv, NEW k \in Conn, OpenFails(k) \/ Closes(k), NEW j \in Conn
  PROVE  \/ /\ readyState'[j] = readyState[j] /\ cut'[j] = cut[j]
            /\ down'[j] = down[j] /\ j # k
         \/ /\ readyState'[j] = "closed" /\ j = k
            /\ \/ cut'[j] = TRUE
               \/ cut'[j] = cut[j] /\ (Closes(k) \/ (k = 1 /\ k # socket))
            /\ down'[j] \in {down[j], <<>>}
         \/ /\ readyState'[j] = Shut(readyState[j]) /\ j = socket
            /\ cut'[j] = TRUE /\ down'[j] = <<>>
<1>1. DOMAIN cut = Conn /\ DOMAIN down = Conn /\ DOMAIN readyState = Conn
  BY TypeParts DEF ServerType, Queues
<1>2. Shut("closed") = "closed" BY DEF Shut
<1>3. ASSUME NEW n, ScheduleReconnect(n, k)
      PROVE  \/ /\ readyState'[j] = readyState[j] /\ cut'[j] = cut[j]
                /\ down'[j] = down[j] /\ j # k
             \/ /\ readyState'[j] = "closed" /\ j = k /\ cut'[j] = TRUE
                /\ down'[j] \in {down[j], <<>>}
             \/ /\ readyState'[j] = Shut(readyState[j]) /\ j = socket
                /\ cut'[j] = TRUE /\ down'[j] = <<>>
  <2>1. CASE attempts + n > MaxAttempts
    <3>1. /\ readyState' = [readyState EXCEPT ![k] = "closed", ![socket] = Shut(@)]
          /\ down' = [down EXCEPT ![socket] = <<>>]
          /\ cut' = [cut EXCEPT ![k] = TRUE, ![socket] = TRUE]
      BY <1>3, <2>1 DEF ScheduleReconnect
    <3>2. CASE j = k
      <4>1. readyState'[j] = "closed" BY <1>1, <1>2, <3>1, <3>2
      <4>2. cut'[j] = TRUE BY <1>1, <3>1, <3>2
      <4>3. down'[j] \in {down[j], <<>>} BY <1>1, <3>1
      <4>. QED BY <3>2, <4>1, <4>2, <4>3
    <3>3. CASE j # k /\ j = socket
      <4>1. readyState'[j] = Shut(readyState[j]) BY <1>1, <3>1, <3>3
      <4>2. cut'[j] = TRUE BY <1>1, <3>1, <3>3
      <4>3. down'[j] = <<>> BY <1>1, <3>1, <3>3
      <4>. QED BY <3>3, <4>1, <4>2, <4>3
    <3>4. CASE j # k /\ j # socket BY <1>1, <3>1, <3>4
    <3>. QED BY <3>2, <3>3, <3>4
  <2>2. CASE ~ (attempts + n > MaxAttempts)
    <3>1. /\ readyState' = [readyState EXCEPT ![k] = "closed"]
          /\ cut' = [cut EXCEPT ![k] = TRUE] /\ down' = down
      BY <1>3, <2>2 DEF ScheduleReconnect
    <3>. QED BY <1>1, <3>1
  <2>. QED BY <2>1, <2>2
<1>4. CASE OpenFails(k) /\ k = 1
  <2> DEFINE states == [readyState EXCEPT ![1] = "closed"]
  <2>1. CloseSocket(states) BY <1>4 DEF OpenFails, Fail
  <2>2. DOMAIN states = Conn BY <1>1
  <2>3. states[j] = IF j = k THEN "closed" ELSE readyState[j] BY <1>1, <1>4
  <2> HIDE DEF states
  <2>4. /\ readyState'[j] = IF j = socket THEN Shut(states[j]) ELSE states[j]
        /\ down'[j] = IF j = socket THEN <<>> ELSE down[j]
        /\ cut'[j] = IF j = socket THEN TRUE ELSE cut[j]
    BY <2>1, <2>2, CloseSocketAt
  <2>5. CASE j = k /\ j = socket BY <1>2, <2>3, <2>4, <2>5
  <2>6. CASE j = k /\ j # socket BY <1>4, <2>3, <2>4, <2>6
  <2>7. CASE j # k BY <2>3, <2>4, <2>7
  <2>. QED BY <2>5, <2>6, <2>7
<1>5. CASE OpenFails(k) /\ k # 1
  <2>1. ScheduleReconnect(IF Reconnecting THEN 2 ELSE 1, k) BY <1>5 DEF OpenFails
  <2>. QED BY <1>3, <2>1
<1>6. CASE Closes(k) /\ Reconnecting
  <2>1. ScheduleReconnect(1, k) BY <1>6 DEF Closes
  <2>. QED BY <1>3, <2>1
<1>7. CASE Closes(k) /\ ~Reconnecting
  <2>1. readyState' = [readyState EXCEPT ![k] = "closed"] /\ UNCHANGED <<down, cut>>
    BY <1>7 DEF Closes
  <2>. QED BY <1>1, <1>7, <2>1
<1>. QED BY <1>4, <1>5, <1>6, <1>7

LEMMA GrowsStep == ASSUME TypeInv, [Next]_vars PROVE Grows
<1>1. /\ sequence \in Nat /\ lastSequence \in Nat \cup {-1}
      /\ \A k \in Conn : up[k] # <<>> => Head(up[k]) \in UpItems
  BY TypeParts, HeadTailProperties DEF BrowserType, Queues
<1>2. ASSUME UNCHANGED <<sequence, lastSequence>> PROVE Grows BY <1>1, <1>2 DEF Grows
<1>3. CASE Capture BY <1>1, <1>3 DEF Grows, Capture, server
<1>4. ASSUME NEW k \in Conn, Accept(k) \/ AcceptRaises(k) PROVE Grows
  <2>1. /\ Head(up[k]) \in UpItems /\ Head(up[k]).type = "frame"
        /\ lastSequence' = Head(up[k]).sequence /\ Head(up[k]).sequence > lastSequence
        /\ sequence' = sequence
    BY <1>1, <1>4 DEF Accept, AcceptRaises, Accepting, Serving, browser
  <2>2. \A m \in UpItems : m.type = "frame" => m.sequence \in Nat
    BY <1>1 DEF UpItems
  <2>. QED BY <1>1, <2>1, <2>2 DEF Grows
<1>5. CASE \/ Start \/ StartTimeout \/ ClickPause \/ ClickResume \/ End \/ Leave \/ Unmount
           \/ Reconnect \/ UNCHANGED vars
  BY <1>2, <1>5 DEF Start, StartTimeout, ClickPause, ClickResume, End, Leave, Unmount, Reconnect,
     browser, server, vars
<1>6. ASSUME NEW k \in Conn, Opens(k) \/ OpenFails(k) \/ Closes(k) \/ Receive(k) \/ Drop(k)
      PROVE  Grows
  BY <1>2, <1>6 DEF Opens, OpenFails, Closes, Receive, Drop, SessionStarted, AudioAck,
     SessionPausedOrResumed, SessionEnded, ErrorEvent, browser, server
<1>7. ASSUME NEW k \in Conn,
             \/ ServeStart(k) \/ OpenSession(k) \/ AcceptDuplicate(k) \/ Refuse(k)
             \/ Control(k) \/ ServeEnd(k) \/ CreateAnalysis(k) \/ Disconnected(k)
             \/ OpenSessionFails(k) \/ EndRaises(k) \/ AnalysisFails(k)
      PROVE  Grows
  BY <1>2, <1>7 DEF ServeStart, OpenSession, AcceptDuplicate, Refuse, Control, ServeEnd,
     CreateAnalysis, Disconnected, OpenSessionFails, EndRaises, AnalysisFails, browser
<1>. QED BY <1>3, <1>4, <1>5, <1>6, <1>7 DEF Next, Serve

LEMMA UpStep == ASSUME TypeInv, [Next]_vars PROVE UpType
<1>1. Queues /\ Grows /\ sequence \in Nat BY TypeParts, GrowsStep DEF BrowserType
<1>2. ASSUME UNCHANGED up PROVE UpType BY <1>1, <1>2, QueuesKept
<1>3. ASSUME NEW k \in Conn, up[k] # <<>>, Take(k) PROVE UpType BY <1>1, <1>3, TakeType
<1>4. ASSUME NEW t \in Kinds, t # "frame" PROVE <<Message(t, -1)>> \in Seq(UpItems')
  <2>1. /\ Message(t, -1) \in Messages /\ Message(t, -1).type = t
        /\ Message(t, -1).sequence = -1
    BY MessageItems
  <2>2. -1 \in -1..(sequence' - 1)
    <3>1. \A n \in Nat : -1 \in -1..(n - 1) OBVIOUS
    <3>. QED BY <1>1, <3>1, Zenon DEF Grows
  <2>3. Message(t, -1) \in UpItems' BY <1>4, <2>1, <2>2 DEF UpItems, Messages
  <2>. QED BY <2>3
<1>5. ASSUME ClickPause \/ ClickResume \/ End PROVE UpType
  <2>1. {"pause_session", "resume_session", "end_session"} \subseteq Kinds BY DEF Kinds
  <2>2. PICK t \in {"pause_session", "resume_session", "end_session"} :
           Send(<<Message(t, -1)>>)
    BY <1>5 DEF ClickPause, ClickResume, End
  <2>3. <<Message(t, -1)>> \in Seq(UpItems') BY <1>4, <2>1
  <2>. QED BY <1>1, <2>2, <2>3, SendType
<1>6. CASE Capture
  <2>1. Send(<<Message("frame", sequence)>>) /\ sequence' = sequence + 1
    BY <1>6 DEF Capture
  <2>2. "frame" \in Kinds BY DEF Kinds
  <2>3. /\ Message("frame", sequence) \in Messages
        /\ Message("frame", sequence).sequence = sequence
    BY <1>1, <2>2, MessageItems
  <2>4. Message("frame", sequence) \in UpItems'
    BY <1>1, <2>1, <2>3 DEF UpItems, Messages
  <2>5. <<Message("frame", sequence)>> \in Seq(UpItems') BY <2>4
  <2>. QED BY <1>1, <2>1, <2>5, SendType
<1>7. ASSUME NEW k \in Conn, Opens(k) PROVE UpType
  <2>1. FirstMessages(k) \in Seq(UpItems') BY <1>1, FirstMessagesItems, ItemsGrow
  <2>2. \A j \in Conn : up[j] \in Seq(UpItems') BY <1>1, ItemsGrow DEF Queues
  <2>3. \A j \in Conn : up[j] \o FirstMessages(k) \in Seq(UpItems')
    BY <2>1, <2>2, ConcatProperties
  <2>4. \/ up' = up
        \/ up' = [up EXCEPT ![socket] = @ \o FirstMessages(k)]
    BY <1>7 DEF Opens
  <2>. QED BY <1>1, <2>2, <2>3, <2>4 DEF UpType, Queues
<1>8. ASSUME NEW k \in Conn, Disconnected(k) PROVE UpType
  <2>1. \A j \in Conn : up[j] \in Seq(UpItems') BY <1>1, ItemsGrow DEF Queues
  <2>2. <<>> \in Seq(UpItems') OBVIOUS
  <2>. QED BY <1>1, <1>8, <2>1, <2>2 DEF Disconnected, UpType, Queues
<1>9. CASE Start \/ StartTimeout \/ Leave \/ Unmount \/ Reconnect \/ UNCHANGED vars
  BY <1>2, <1>9 DEF Start, StartTimeout, Leave, Unmount, Reconnect, network, vars
<1>10. ASSUME NEW k \in Conn, OpenFails(k) \/ Closes(k) \/ Receive(k) \/ Drop(k)
       PROVE  UpType
  BY <1>2, <1>10 DEF OpenFails, Closes, Receive, Drop, SessionStarted, AudioAck,
     SessionPausedOrResumed, SessionEnded, ErrorEvent
<1>11. ASSUME NEW k \in Conn,
              OpenSession(k) \/ CreateAnalysis(k) \/ OpenSessionFails(k) \/ AnalysisFails(k)
       PROVE  UpType
  BY <1>2, <1>11 DEF OpenSession, CreateAnalysis, OpenSessionFails, AnalysisFails
<1>12. ASSUME NEW k \in Conn,
              \/ ServeStart(k) \/ Accept(k) \/ AcceptRaises(k) \/ AcceptDuplicate(k)
              \/ Refuse(k) \/ Control(k) \/ ServeEnd(k) \/ EndRaises(k)
       PROVE  UpType
  BY <1>3, <1>12 DEF ServeStart, Accept, AcceptRaises, AcceptDuplicate, Refuse, Control,
     Refused, ServeEnd, EndRaises, Accepting, Serving
<1>. QED BY <1>5, <1>6, <1>7, <1>8, <1>9, <1>10, <1>11, <1>12 DEF Next, Serve

LEMMA DownStep == ASSUME TypeInv, [Next]_vars PROVE DownType
<1>1. /\ Queues /\ Grows /\ lastSequence \in Nat \cup {-1}
      /\ down \in [Conn -> Seq(DownItems)]
  BY TypeParts, GrowsStep DEF BrowserType, Queues
<1>2. ASSUME UNCHANGED down PROVE DownType BY <1>1, <1>2, QueuesKept
<1>3. ASSUME NEW k \in Conn, down[k] # <<>>, Consume(k) PROVE DownType
  BY <1>1, <1>3, ConsumeType
<1>4. ASSUME NEW k \in Conn, NEW t \in Kinds, NEW n \in Nat \cup {-1}, n <= lastSequence',
             Reply(k, t, n)
      PROVE  DownType
  BY <1>1, <1>4, ReplyType
<1>5. \A j \in Conn : down[j] \in Seq(DownItems') BY <1>1, ItemsGrow
<1>6. <<>> \in Seq(DownItems') OBVIOUS
<1>7. ASSUME down' = [down EXCEPT ![socket] = <<>>] PROVE DownType
  BY <1>1, <1>5, <1>6, <1>7 DEF DownType
<1>8. CASE StartTimeout \/ Leave \/ Unmount
  BY <1>6, <1>7, <1>8 DEF StartTimeout, Leave, Unmount, Fail, Shows, CloseSocket, Shut, DownType
<1>9. ASSUME NEW k \in Conn, OpenFails(k) \/ Closes(k) PROVE DownType
  BY <1>2, <1>7, <1>9 DEF OpenFails, Closes, Fail, Shows, CloseSocket, Shut, ScheduleReconnect
<1>10. ASSUME NEW k \in Conn, Receive(k) PROVE DownType
  <2>1. CASE SessionEnded(k)
    <3>1. Tail(down[k]) \in Seq(DownItems')
      BY <1>5, <2>1, HeadTailProperties DEF SessionEnded, Incoming
    <3>2. down' = [down EXCEPT ![k] = Tail(@), ![socket] = <<>>]
      BY <2>1 DEF SessionEnded
    <3>. QED BY <1>1, <1>5, <1>6, <3>1, <3>2 DEF DownType
  <2>2. CASE ~SessionEnded(k)
    BY <1>3, <1>10, <2>2 DEF Receive, SessionStarted, AudioAck, SessionPausedOrResumed,
       ErrorEvent, Incoming
  <2>. QED BY <2>1, <2>2
<1>11. ASSUME NEW k \in Conn, Drop(k) PROVE DownType
  <2>1. PICK i \in 0..Len(down[k]) : down' = [down EXCEPT ![k] = SubSeq(@, 1, i)]
    BY <1>11 DEF Drop
  <2>2. SubSeq(down[k], 1, i) \in Seq(DownItems') BY <1>5, TypesPrefix
  <2>. QED BY <1>1, <1>5, <2>1, <2>2 DEF DownType
<1>12. CASE \/ Start \/ Capture \/ ClickPause \/ ClickResume \/ End \/ Reconnect
            \/ UNCHANGED vars
  BY <1>2, <1>12 DEF Start, Capture, ClickPause, ClickResume, End, Reconnect, network, vars
<1>13. ASSUME NEW k \in Conn,
              \/ Opens(k) \/ ServeEnd(k) \/ Disconnected(k) \/ OpenSessionFails(k)
              \/ AcceptRaises(k) \/ EndRaises(k) \/ AnalysisFails(k)
       PROVE  DownType
  BY <1>2, <1>13 DEF Opens, ServeEnd, Disconnected, OpenSessionFails, AcceptRaises,
     EndRaises, AnalysisFails
<1>14. /\ "session_started" \in Kinds /\ "audio_ack" \in Kinds /\ "error" \in Kinds
       /\ "session_paused" \in Kinds /\ "session_resumed" \in Kinds
       /\ "session_ended" \in Kinds
  BY DEF Kinds
<1>15. -1 \in Nat \cup {-1} /\ -1 <= lastSequence' /\ lastSequence <= lastSequence'
  BY <1>1 DEF Grows
<1>16. ASSUME NEW k \in Conn, ServeStart(k) \/ OpenSession(k) PROVE DownType
  BY <1>1, <1>2, <1>4, <1>14, <1>15, <1>16 DEF ServeStart, OpenSession
<1>17. ASSUME NEW k \in Conn, Accept(k) PROVE DownType
  <2>1. Reply(k, "audio_ack", lastSequence') BY <1>17 DEF Accept
  <2>2. lastSequence' \in Nat \cup {-1} /\ lastSequence' <= lastSequence'
    BY <1>1 DEF Grows
  <2>. QED BY <1>4, <1>14, <2>1, <2>2
<1>18. ASSUME NEW k \in Conn, AcceptDuplicate(k) \/ Refuse(k) \/ Control(k) PROVE DownType
  BY <1>1, <1>4, <1>14, <1>15, <1>18 DEF AcceptDuplicate, Refuse, Control
<1>19. ASSUME NEW k \in Conn, CreateAnalysis(k) PROVE DownType
  BY <1>2, <1>4, <1>14, <1>15, <1>19 DEF CreateAnalysis
<1>. QED BY <1>8, <1>9, <1>10, <1>11, <1>12, <1>13, <1>16, <1>17, <1>18, <1>19
     DEF Next, Serve

LEMMA BrowserStep == ASSUME TypeInv, [Next]_vars PROVE BrowserType'
<1>1. BrowserType /\ Queues /\ Grows BY TypeParts, GrowsStep
<1>2. \A k \in Conn : down[k] # <<>> => Head(down[k]).sequence \in -1..lastSequence
  <2>1. ASSUME NEW k \in Conn, down[k] # <<>> PROVE Head(down[k]).sequence \in -1..lastSequence
    <3>1. Head(down[k]) \in DownItems BY <1>1, <2>1, HeadTailProperties DEF Queues
    <3>. QED BY <3>1 DEF DownItems
  <2>. QED BY <2>1
<1>3. ASSUME UNCHANGED browser, UNCHANGED lastSequence PROVE BrowserType'
  BY <1>1, <1>3 DEF BrowserType, browser
<1>4. CASE Start BY <1>1, <1>4 DEF Start, Connect, BrowserType, Active, server
<1>5. CASE StartTimeout
  BY <1>1, <1>5 DEF StartTimeout, Fail, Shows, BrowserType, server
<1>6. CASE Capture
  <2>1. LET B == Trim(buffered \cup {sequence}) IN
        /\ B \in SUBSET (0..sequence) /\ IsFiniteSet(B) /\ Cardinality(B) <= BufferLimit
    BY TrimKeeps
  <2>2. sequence' = sequence + 1 /\ sequence \in Nat /\ sequence < MaxFrames
    BY <1>1, <1>6 DEF Capture, BrowserType
  <2>3. /\ buffered' \in SUBSET (0..sequence) /\ IsFiniteSet(buffered')
        /\ Cardinality(buffered') <= BufferLimit
    BY <1>6, <2>1 DEF Capture
  <2>4. sequence' - 1 = sequence BY <2>2
  <2>5. buffered' \in SUBSET (0..(sequence' - 1)) BY <2>3, <2>4
  <2>6. /\ sequence' \in 0..MaxFrames /\ lastSequence' = lastSequence
        /\ lastSequence < sequence'
    BY <1>1, <1>6, <2>2 DEF Capture, server, BrowserType
  <2>. QED BY <1>1, <1>6, <2>3, <2>5, <2>6 DEF Capture, BrowserType
<1>7. CASE ClickPause \/ ClickResume \/ UNCHANGED vars
  BY <1>3, <1>7 DEF ClickPause, ClickResume, vars, server
<1>8. CASE End \/ Leave \/ Unmount
  <2>1. CASE End BY <1>1, <2>1 DEF End, BrowserType, Active, server
  <2>2. CASE Leave BY <1>1, <2>2 DEF Leave, BrowserType, Active, server
  <2>3. CASE Unmount BY <1>1, <2>3 DEF Unmount, CloseSocket, BrowserType, Active, server
  <2>. QED BY <1>8, <2>1, <2>2, <2>3
<1>9. CASE Reconnect
  BY <1>1, <1>9 DEF Reconnect, Connect, BrowserType, server
<1>10. ASSUME NEW k \in Conn, Opens(k) PROVE BrowserType'
  BY <1>1, <1>10 DEF Opens, BrowserType
<1>11. ASSUME NEW k \in Conn, NEW n \in 1..2, ScheduleReconnect(n, k),
              UNCHANGED <<sequence, lastAck, buffered, socket, opened, lastSequence>>
       PROVE  BrowserType'
  <2>1. /\ attempts \in 0..MaxAttempts /\ timers \in Nat /\ n \in {1, 2}
    BY <1>1 DEF BrowserType
  <2>2. attempts' \in 0..MaxAttempts /\ timers' \in Nat
    BY <1>11, <2>1 DEF ScheduleReconnect
  <2>3. /\ status' \in Active \cup {"idle", "ended", "error", "gone"}
        /\ capturing' \in BOOLEAN /\ intentional' \in BOOLEAN
    BY <1>1, <1>11 DEF ScheduleReconnect, Shows, BrowserType
  <2>. QED BY <1>1, <1>11, <2>2, <2>3 DEF BrowserType
<1>12. ASSUME NEW k \in Conn, OpenFails(k) PROVE BrowserType'
  <2>1. CASE k = 1
    BY <1>1, <1>12, <2>1 DEF OpenFails, Fail, Shows, BrowserType, server
  <2>2. CASE k # 1
    <3>1. /\ ScheduleReconnect(IF Reconnecting THEN 2 ELSE 1, k)
          /\ UNCHANGED <<sequence, lastAck, buffered, socket, opened, lastSequence>>
      BY <1>12, <2>2 DEF OpenFails, server
    <3>2. PICK n \in 1..2 : ScheduleReconnect(n, k)
      <4>1. (IF Reconnecting THEN 2 ELSE 1) \in 1..2 OBVIOUS
      <4>. QED BY <3>1, <4>1
    <3>. QED BY <1>11, <3>1, <3>2
  <2>. QED BY <2>1, <2>2
<1>13. ASSUME NEW k \in Conn, Closes(k) PROVE BrowserType'
  <2>1. UNCHANGED <<sequence, lastAck, buffered, socket, opened, lastSequence>>
    BY <1>13 DEF Closes, server
  <2>2. CASE Reconnecting BY <1>11, <1>13, <2>1, <2>2 DEF Closes
  <2>3. CASE ~Reconnecting BY <1>1, <1>13, <2>1, <2>3 DEF Closes, BrowserType
  <2>. QED BY <2>2, <2>3
<1>14. ASSUME NEW k \in Conn, AudioAck(k) PROVE BrowserType'
  <2>1. /\ Head(down[k]).sequence \in -1..lastSequence
        /\ lastAck' = Max({lastAck, Head(down[k]).sequence})
        /\ buffered' = {n \in buffered : n > lastAck'}
    BY <1>2, <1>14 DEF AudioAck, Incoming
  <2>2. lastAck' \in -1..lastSequence
    <3>1. lastAck \in Int /\ Head(down[k]).sequence \in Int BY <1>1, <2>1 DEF BrowserType
    <3>2. lastAck' \in {lastAck, Head(down[k]).sequence} BY <2>1, <3>1, MaxOf
    <3>. QED BY <1>1, <2>1, <3>2 DEF BrowserType
  <2>3. IsFiniteSet(buffered') /\ Cardinality(buffered') <= BufferLimit
    <3>1. IsFiniteSet(buffered) /\ Cardinality(buffered) <= BufferLimit
      BY <1>1 DEF BrowserType
    <3>2. buffered' \subseteq buffered BY <2>1
    <3>3. /\ IsFiniteSet(buffered') /\ Cardinality(buffered') <= Cardinality(buffered)
          /\ Cardinality(buffered) \in Nat /\ Cardinality(buffered') \in Nat
      BY <3>1, <3>2, FS_Subset, FS_CardinalityType
    <3>. QED BY <3>1, <3>3
  <2>4. buffered' \in SUBSET (0..(sequence' - 1))
    BY <1>1, <1>14, <2>1 DEF AudioAck, BrowserType
  <2>. QED BY <1>1, <1>14, <2>2, <2>3, <2>4 DEF AudioAck, BrowserType, server
<1>15. ASSUME NEW k \in Conn, SessionStarted(k) PROVE BrowserType'
  <2>1. lastAck' \in -1..lastSequence BY <1>2, <1>15 DEF SessionStarted, Incoming
  <2>. QED BY <1>1, <1>15, <2>1 DEF SessionStarted, Shows, BrowserType, Active, server
<1>16. ASSUME NEW k \in Conn, SessionPausedOrResumed(k) \/ SessionEnded(k) \/ ErrorEvent(k)
       PROVE  BrowserType'
  BY <1>1, <1>16 DEF SessionPausedOrResumed, SessionEnded, ErrorEvent, Shows, BrowserType,
     Active, server
<1>17. ASSUME NEW k \in Conn, Accept(k) \/ AcceptRaises(k) PROVE BrowserType'
  <2>1. Head(up[k]) \in UpItems /\ Head(up[k]).type = "frame"
    BY <1>1, <1>17, HeadTailProperties DEF Queues, Accept, AcceptRaises, Accepting, Serving
  <2>2. Head(up[k]).sequence \in 0..(sequence - 1)
    <3>1. sequence \in Nat BY <1>1 DEF BrowserType
    <3>. QED BY <2>1, <3>1 DEF UpItems
  <2>3. /\ lastSequence' = Head(up[k]).sequence /\ lastSequence' > lastSequence
        /\ UNCHANGED browser
    BY <1>17 DEF Accept, AcceptRaises
  <2>. QED BY <1>1, <2>2, <2>3 DEF BrowserType, browser
<1>18. ASSUME NEW k \in Conn,
              \/ ServeStart(k) \/ OpenSession(k) \/ AcceptDuplicate(k) \/ Refuse(k)
              \/ Control(k) \/ ServeEnd(k) \/ CreateAnalysis(k) \/ Disconnected(k)
              \/ OpenSessionFails(k) \/ EndRaises(k) \/ AnalysisFails(k) \/ Drop(k)
       PROVE  BrowserType'
  BY <1>3, <1>18 DEF ServeStart, OpenSession, AcceptDuplicate, Refuse, Control, ServeEnd,
     CreateAnalysis, Disconnected, OpenSessionFails, EndRaises, AnalysisFails, Drop, server
<1>. QED BY <1>4, <1>5, <1>6, <1>7, <1>8, <1>9, <1>10, <1>12, <1>13, <1>14, <1>15, <1>16,
            <1>17, <1>18
     DEF Next, Receive, Serve

LEMMA ServerStep == ASSUME TypeInv, [Next]_vars PROVE ServerType'
<1>1. ServerType /\ BrowserType /\ Queues BY TypeParts
<1>2. ASSUME UNCHANGED <<readyState, cut, server, bounds>> PROVE ServerType'
  BY <1>1, <1>2 DEF ServerType, server, bounds
<1>3. CASE \/ Start \/ StartTimeout \/ Leave \/ Unmount \/ Reconnect
  <2>1. CASE Start BY <1>1, <2>1 DEF Start, Connect, ServerType, network, server, bounds
  <2>2. CASE StartTimeout
    BY <1>1, <2>2 DEF StartTimeout, Fail, Shows, CloseSocket, Shut, ServerType, server, bounds
  <2>3. CASE Leave BY <1>1, <2>3 DEF Leave, ServerType, server, bounds
  <2>5. CASE Unmount
    BY <1>1, <2>5 DEF Unmount, CloseSocket, Shut, ServerType, server, bounds
  <2>4. CASE Reconnect
    BY <1>1, <2>4 DEF Reconnect, Connect, ServerType, network, server, bounds
  <2>. QED BY <1>3, <2>1, <2>2, <2>3, <2>4, <2>5
<1>4. CASE Capture \/ End \/ UNCHANGED vars
  BY <1>2, <1>4 DEF Capture, End, vars, browser, network
<1>5. CASE ClickPause \/ ClickResume
  <2>1. clicks' \in 0..MaxClicks
    BY <1>1, <1>5 DEF ClickPause, ClickResume, ServerType
  <2>. QED BY <1>1, <1>5, <2>1 DEF ClickPause, ClickResume, ServerType, browser, server
<1>6. ASSUME NEW k \in Conn, Opens(k) PROVE ServerType'
  BY <1>1, <1>6 DEF Opens, ServerType, bounds
<1>7. ASSUME drops + clicks < MaxDrops, drops' = drops + 1 PROVE drops' \in 0..MaxDrops
  <2>1. drops \in Nat /\ clicks \in Nat BY <1>1 DEF ServerType
  <2>. QED BY <1>7, <2>1, Bounds
<1>8. ASSUME NEW k \in Conn, OpenFails(k) \/ Closes(k) PROVE ServerType'
  <2>1. /\ DOMAIN readyState' = Conn /\ DOMAIN cut' = Conn
        /\ readyState' = [j \in Conn |-> readyState'[j]]
        /\ cut' = [j \in Conn |-> cut'[j]]
    BY <1>1, <1>8 DEF OpenFails, Closes, Fail, CloseSocket, ScheduleReconnect, ServerType
  <2>2. ASSUME NEW j \in Conn
        PROVE  /\ readyState'[j] \in {"none", "connecting", "open", "closing", "closed"}
               /\ cut'[j] \in BOOLEAN
    <3>1. /\ readyState[j] \in {"none", "connecting", "open", "closing", "closed"}
          /\ cut[j] \in BOOLEAN
      BY <1>1 DEF ServerType
    <3>2. Shut(readyState[j]) \in {"closing", "closed"} BY Shuts
    <3>. QED BY <1>8, <3>1, <3>2, LossAt
  <2>3. /\ readyState' \in [Conn -> {"none", "connecting", "open", "closing", "closed"}]
        /\ cut' \in [Conn -> BOOLEAN]
    BY <2>1, <2>2
  <2>4. UNCHANGED <<handler, session, paused, gated, recording, jobs, clicks>>
    BY <1>8 DEF OpenFails, Closes, server, bounds
  <2>5. drops' \in 0..MaxDrops
    <3>1. CASE drops' = drops BY <1>1, <3>1 DEF ServerType
    <3>2. CASE drops + clicks < MaxDrops /\ drops' = drops + 1 BY <1>7, <3>2
    <3>. QED BY <1>8, <3>1, <3>2 DEF OpenFails, Closes, bounds
  <2>. QED BY <1>1, <2>3, <2>4, <2>5 DEF ServerType
<1>9. ASSUME NEW k \in Conn, SessionEnded(k) PROVE ServerType'
  <2>1. \A state : Shut(state) \in {"closing", "closed"} BY Shuts
  <2>2. /\ readyState' = [readyState EXCEPT ![socket] = Shut(@)]
        /\ cut' = [cut EXCEPT ![socket] = TRUE]
        /\ UNCHANGED <<server, bounds>>
    BY <1>9 DEF SessionEnded
  <2>. QED BY <1>1, <2>1, <2>2 DEF ServerType, server, bounds
<1>10. ASSUME NEW k \in Conn, Receive(k) PROVE ServerType'
  BY <1>2, <1>9, <1>10 DEF Receive, SessionStarted, AudioAck, SessionPausedOrResumed,
     ErrorEvent
<1>11. ASSUME NEW k \in Conn, Accept(k) \/ AcceptRaises(k) PROVE ServerType'
  <2>1. Head(up[k]) \in UpItems /\ Head(up[k]).type = "frame"
    BY <1>1, <1>11, HeadTailProperties DEF Queues, Accept, AcceptRaises, Accepting, Serving
  <2>2. Head(up[k]).sequence \in 0..MaxFrames
    <3>1. sequence \in 0..MaxFrames BY <1>1 DEF BrowserType
    <3>. QED BY <2>1, <3>1 DEF UpItems
  <2>3. recording' = Append(recording, Head(up[k]).sequence)
    BY <1>11 DEF Accept, AcceptRaises
  <2>4. recording' \in Seq(0..MaxFrames)
    BY <1>1, <2>2, <2>3, AppendProperties DEF ServerType
  <2>5. CASE Accept(k)
    BY <1>1, <2>4, <2>5 DEF Accept, ServerType, browser, bounds
  <2>6. CASE AcceptRaises(k)
    BY <1>1, <1>7, <2>4, <2>6 DEF AcceptRaises, Raises, Goes, ServerType, browser
  <2>. QED BY <1>11, <2>5, <2>6
<1>12. ASSUME NEW k \in Conn,
              \/ ServeStart(k) \/ OpenSession(k) \/ AcceptDuplicate(k) \/ Refuse(k)
              \/ Control(k) \/ ServeEnd(k)
       PROVE  ServerType'
  BY <1>1, <1>12 DEF ServeStart, OpenSession, AcceptDuplicate, Refuse, Control, ServeEnd,
     Goes, ServerType, browser, bounds
<1>13. ASSUME NEW k \in Conn,
              \/ CreateAnalysis(k) \/ Disconnected(k) \/ OpenSessionFails(k)
              \/ EndRaises(k) \/ AnalysisFails(k)
       PROVE  ServerType'
  <2>1. CASE CreateAnalysis(k)
    <3>1. /\ handler' = [handler EXCEPT ![k] = "done"]
             \/ handler' = [handler EXCEPT ![k] = "reading"]
          /\ cut' = [cut EXCEPT ![k] = TRUE] \/ cut' = cut
          /\ jobs' = jobs + 1 /\ gated' = FALSE
          /\ UNCHANGED <<readyState, session, paused, recording, clicks, drops>>
      BY <2>1 DEF CreateAnalysis, Goes, browser, bounds
    <3>2. handler' \in [Conn -> {"none", "reading", "starting", "ending",
                                "endingAgain", "done"}]
      BY <1>1, <3>1 DEF ServerType
    <3>3. cut' \in [Conn -> BOOLEAN] /\ jobs' \in Nat
      <4>1. cut \in [Conn -> BOOLEAN] /\ jobs \in Nat BY <1>1 DEF ServerType
      <4>2. jobs' \in Nat BY <3>1, <4>1
      <4>3. ASSUME cut' = [cut EXCEPT ![k] = TRUE] PROVE cut' \in [Conn -> BOOLEAN]
        BY <4>1, <4>3
      <4>4. ASSUME cut' = cut PROVE cut' \in [Conn -> BOOLEAN] BY <4>1, <4>4
      <4>. QED BY <3>1, <4>2, <4>3, <4>4
    <3>. QED BY <1>1, <3>1, <3>2, <3>3 DEF ServerType
  <2>2. CASE Disconnected(k) \/ OpenSessionFails(k)
    BY <1>1, <2>2 DEF Disconnected, OpenSessionFails, Raises, Goes, ServerType, browser,
       bounds
  <2>3. CASE EndRaises(k) \/ AnalysisFails(k)
    BY <1>1, <2>3 DEF EndRaises, AnalysisFails, Raises, Goes, ServerType, browser, bounds
  <2>. QED BY <1>13, <2>1, <2>2, <2>3
<1>14. ASSUME NEW k \in Conn, Drop(k) PROVE ServerType'
  BY <1>1, <1>7, <1>14 DEF Drop, ServerType, browser, server
<1>. QED BY <1>3, <1>4, <1>5, <1>6, <1>8, <1>10, <1>11, <1>12, <1>13, <1>14
     DEF Next, Serve

LEMMA TypeStep == ASSUME TypeInv, [Next]_vars PROVE TypeInv'
BY UpStep, DownStep, BrowserStep, ServerStep, TypePartsNext

LEMMA TypeInit == ASSUME Init PROVE TypeInv
<1>1. BrowserType
  <2>1. IsFiniteSet({}) /\ Cardinality({}) = 0 BY FS_EmptySet
  <2>2. /\ status = "idle" /\ capturing = FALSE /\ intentional = FALSE
        /\ sequence = 0 /\ lastAck = -1 /\ lastSequence = -1 /\ buffered = {}
        /\ socket = 0 /\ opened = 0 /\ attempts = 0 /\ timers = 0
    BY DEF Init
  <2>3. /\ lastAck \in -1..lastSequence /\ lastSequence < sequence
        /\ buffered \in SUBSET (0..(sequence - 1)) /\ IsFiniteSet(buffered)
        /\ Cardinality(buffered) <= BufferLimit
    BY <2>1, <2>2
  <2>4. 0 \in 0..MaxFrames /\ 0 \in 0..Connections /\ 0 \in 0..MaxAttempts OBVIOUS
  <2>. QED BY <2>2, <2>3, <2>4 DEF BrowserType
<1>2. ServerType
  <2>1. /\ readyState = [k \in Conn |-> "none"] /\ cut = [k \in Conn |-> FALSE]
        /\ handler = [k \in Conn |-> "none"] /\ session = "none" /\ paused = FALSE
        /\ gated = FALSE /\ recording = <<>> /\ jobs = 0 /\ clicks = 0 /\ drops = 0
    BY DEF Init
  <2>2. <<>> \in Seq(0..MaxFrames) /\ 0 \in 0..MaxClicks /\ 0 \in 0..MaxDrops OBVIOUS
  <2>3. /\ readyState \in [Conn -> {"none", "connecting", "open", "closing", "closed"}]
        /\ cut \in [Conn -> BOOLEAN]
        /\ handler \in [Conn -> {"none", "reading", "starting", "ending",
                                 "endingAgain", "done"}]
    BY <2>1
  <2>. QED BY <2>1, <2>2, <2>3 DEF ServerType
<1>3. Queues
  <2>1. <<>> \in Seq(UpItems) /\ <<>> \in Seq(DownItems) OBVIOUS
  <2>. QED BY <2>1 DEF Init, Queues
<1>. QED BY <1>1, <1>2, <1>3, TypeParts

-----------------------------------------------------------------------------
(* The recording.                                                          *)

LEMMA OnlyAcceptRecords ==
  ASSUME [Next]_vars
  PROVE  \/ UNCHANGED <<lastSequence, recording>>
         \/ \E k \in Conn : Accept(k) \/ AcceptRaises(k)
<1>1. CASE \/ Start \/ StartTimeout \/ Capture \/ ClickPause \/ ClickResume \/ End
           \/ Leave \/ Unmount \/ Reconnect \/ UNCHANGED vars
  BY <1>1 DEF Start, StartTimeout, Capture, ClickPause, ClickResume, End, Leave, Unmount, Reconnect,
     server, vars
<1>2. ASSUME NEW k \in Conn, Opens(k) \/ OpenFails(k) \/ Closes(k) \/ Receive(k) \/ Drop(k)
      PROVE  UNCHANGED <<lastSequence, recording>>
  BY <1>2 DEF Opens, OpenFails, Closes, Receive, Drop, SessionStarted, AudioAck,
     SessionPausedOrResumed, SessionEnded, ErrorEvent, server
<1>3. ASSUME NEW k \in Conn,
             \/ ServeStart(k) \/ OpenSession(k) \/ AcceptDuplicate(k) \/ Refuse(k)
             \/ Control(k) \/ ServeEnd(k) \/ CreateAnalysis(k) \/ Disconnected(k)
             \/ OpenSessionFails(k) \/ EndRaises(k) \/ AnalysisFails(k)
      PROVE  UNCHANGED <<lastSequence, recording>>
  BY <1>3 DEF ServeStart, OpenSession, AcceptDuplicate, Refuse, Control, ServeEnd,
     CreateAnalysis, Disconnected, OpenSessionFails, EndRaises, AnalysisFails
<1>. QED BY <1>1, <1>2, <1>3 DEF Next, Serve

(* The frame a handler accepts.                                            *)
LEMMA Accepted ==
  ASSUME TypeInv, NEW k \in Conn, Accept(k) \/ AcceptRaises(k)
  PROVE  /\ up[k] # <<>> /\ Head(up[k]) \in UpItems /\ Head(up[k]).type = "frame"
         /\ lastSequence' = Head(up[k]).sequence /\ lastSequence' \in 0..(sequence - 1)
         /\ lastSequence \in Nat \cup {-1} /\ lastSequence' > lastSequence
         /\ lastSequence < 0 \/ lastSequence' = lastSequence + 1
         /\ recording' = Append(recording, lastSequence')
         /\ session = "open" /\ ~paused /\ handler[k] = "reading" /\ Take(k)
         /\ UNCHANGED <<browser, session, paused, gated, jobs, clicks>>
<1>1. Queues /\ BrowserType BY TypeParts
<1>2. /\ up[k] # <<>> /\ Head(up[k]).type = "frame"
      /\ session = "open" /\ ~paused /\ handler[k] = "reading" /\ Take(k)
      /\ UNCHANGED <<browser, session, paused, gated, jobs, clicks>>
      /\ lastSequence' = Head(up[k]).sequence /\ lastSequence' > lastSequence
      /\ lastSequence < 0 \/ lastSequence' = lastSequence + 1
      /\ recording' = Append(recording, lastSequence')
  BY DEF Accept, AcceptRaises, Accepting, Serving, Continues, bounds
<1>3. Head(up[k]) \in UpItems BY <1>1, <1>2, HeadTailProperties DEF Queues
<1>4. lastSequence' \in 0..(sequence - 1)
  <2>1. sequence \in Nat BY <1>1 DEF BrowserType
  <2>. QED BY <1>2, <1>3, <2>1 DEF UpItems
<1>. QED BY <1>1, <1>2, <1>3, <1>4 DEF BrowserType

LEMMA RecStep == ASSUME TypeInv, RecInv, [Next]_vars PROVE RecInv'
<1>1. CASE UNCHANGED <<lastSequence, recording>> BY <1>1 DEF RecInv
<1>2. ASSUME NEW k \in Conn, Accept(k) \/ AcceptRaises(k) PROVE RecInv'
  <2> DEFINE n == Len(recording)
             l == lastSequence'
  <2>1. /\ recording \in Seq(0..MaxFrames) /\ n \in Nat
        /\ lastSequence \in Nat \cup {-1} /\ l \in Nat
        /\ lastSequence < 0 \/ l = lastSequence + 1
        /\ recording' = Append(recording, l)
    BY <1>2, Accepted, TypeParts DEF ServerType, TypeInv, TypeOK
  <2>2. /\ Len(recording') = n + 1 /\ recording'[n + 1] = l
        /\ \A i \in 1..n : recording'[i] = recording[i]
    BY <2>1
  <2>3. recording' # <<>> BY <2>1, <2>2
  <2>4. lastSequence < 0 => n = 0 BY DEF RecInv
  <2>5. \A i \in 1..n : recording[i] = lastSequence - (n - i) BY DEF RecInv
  <2> HIDE DEF n, l
  <2>6. n \in Int /\ l \in Int /\ lastSequence \in Int /\ n >= 0 /\ l >= 0 BY <2>1
  <2>7. ASSUME NEW i \in 1..(n + 1) PROVE recording'[i] = l - (n + 1 - i)
    <3>1. CASE i = n + 1 BY <2>2, <2>6, <3>1
    <3>2. CASE i \in 1..n
      <4>1. l = lastSequence + 1 BY <2>1, <2>4, <3>2
      <4>2. recording'[i] = lastSequence - (n - i) BY <2>2, <2>5, <3>2
      <4>. QED BY <2>6, <3>2, <4>1, <4>2
    <3>. QED BY <2>6, <3>1, <3>2
  <2>8. \A i \in 1..Len(recording') : recording'[i] = l - (Len(recording') - i)
    BY <2>2, <2>6, <2>7
  <2>. QED BY <2>3, <2>6, <2>8 DEF RecInv, l
<1>. QED BY <1>1, <1>2, OnlyAcceptRecords

(* The recording is the stretch of the call that ends with lastSequence.   *)
LEMMA RecordedIs ==
  ASSUME TypeInv, RecInv, recording # <<>>
  PROVE  /\ Head(recording) \in Nat /\ lastSequence \in Nat
         /\ Recorded = Head(recording)..lastSequence
<1> DEFINE n == Len(recording)
<1>1. /\ recording \in Seq(0..MaxFrames) /\ n \in Nat /\ n > 0
      /\ lastSequence \in Nat \cup {-1} /\ ~ lastSequence < 0
      /\ Head(recording) = recording[1] /\ DOMAIN recording = 1..n
      /\ recording[1] \in Int /\ recording[1] >= 0
  <2>1. recording \in Seq(0..MaxFrames) /\ lastSequence \in Nat \cup {-1}
    BY TypeParts DEF ServerType, BrowserType
  <2>2. n \in Nat /\ n > 0 /\ Head(recording) = recording[1] /\ DOMAIN recording = 1..n
    BY <2>1
  <2>3. recording[1] \in 0..MaxFrames BY <2>1, <2>2, ElementOfSeq
  <2>. QED BY <2>1, <2>2, <2>3 DEF RecInv
<1>2. \A i \in 1..n : recording[i] = lastSequence - (n - i) BY DEF RecInv
<1> HIDE DEF n
<1>3. recording[1] = lastSequence - (n - 1) BY <1>1, <1>2
<1>4. ASSUME NEW m \in recording[1]..lastSequence PROVE \E i \in 1..n : recording[i] = m
  <2>1. m + n - lastSequence \in 1..n BY <1>1, <1>3
  <2>2. recording[m + n - lastSequence] = m BY <1>1, <1>2, <2>1
  <2>. QED BY <2>1, <2>2
<1>5. \A i \in 1..n : recording[i] \in recording[1]..lastSequence BY <1>1, <1>2, <1>3
<1>6. Recorded = {recording[i] : i \in 1..n} BY <1>1 DEF Recorded
<1>7. Recorded = recording[1]..lastSequence BY <1>4, <1>5, <1>6
<1>. QED BY <1>1, <1>7

LEMMA RecordingIsWholeInv == ASSUME TypeInv, RecInv PROVE RecordingIsWhole
<1> DEFINE n == Len(recording)
<1>1. n \in Nat /\ lastSequence \in Int BY TypeParts, SMTT(30) DEF ServerType, BrowserType
<1>2. \A i \in 1..n : recording[i] = lastSequence - (n - i) BY DEF RecInv
<1> HIDE DEF n
<1>3. ASSUME NEW i \in 1..(n - 1) PROVE recording[i + 1] = recording[i] + 1
  <2>1. i \in 1..n /\ i + 1 \in 1..n BY <1>1
  <2>2. /\ recording[i] = lastSequence - (n - i)
        /\ recording[i + 1] = lastSequence - (n - (i + 1))
    BY <1>2, <2>1
  <2>. QED BY <1>1, <2>2
<1>. QED BY <1>3 DEF RecordingIsWhole, n

-----------------------------------------------------------------------------
(* The buffer.                                                             *)

LEMMA OnlyTheseBuffer ==
  ASSUME [Next]_vars
  PROVE  \/ UNCHANGED <<sequence, buffered>>
         \/ Capture
         \/ \E k \in Conn : AudioAck(k)
<1>1. CASE \/ Start \/ StartTimeout \/ ClickPause \/ ClickResume \/ End \/ Leave \/ Unmount
           \/ Reconnect \/ UNCHANGED vars
  BY <1>1 DEF Start, StartTimeout, ClickPause, ClickResume, End, Leave, Unmount, Reconnect,
     browser, vars
<1>2. ASSUME NEW k \in Conn, Opens(k) \/ OpenFails(k) \/ Closes(k) \/ Receive(k) \/ Drop(k),
             ~AudioAck(k)
      PROVE  UNCHANGED <<sequence, buffered>>
  BY <1>2 DEF Opens, OpenFails, Closes, Receive, Drop, SessionStarted,
     SessionPausedOrResumed, SessionEnded, ErrorEvent, browser
<1>3. ASSUME NEW k \in Conn, Serve(k) \/ OpenSessionFails(k) \/ AcceptRaises(k)
                             \/ EndRaises(k) \/ AnalysisFails(k)
      PROVE  UNCHANGED <<sequence, buffered>>
  BY <1>3 DEF Serve, ServeStart, OpenSession, Accept, AcceptDuplicate, Refuse, Control,
     ServeEnd, CreateAnalysis, Disconnected, OpenSessionFails, AcceptRaises, EndRaises,
     AnalysisFails, browser
<1>. QED BY <1>1, <1>2, <1>3 DEF Next

(* The events the page gets: what they change.                             *)
LEMMA AckedIsAccepted ==
  ASSUME TypeInv, NEW k \in Conn, AudioAck(k)
  PROVE  /\ lastAck' \in Int /\ lastAck' <= lastSequence
         /\ buffered' = {n \in buffered : n > lastAck'}
         /\ UNCHANGED <<sequence, lastSequence>>
<1>1. BrowserType' /\ BrowserType /\ UNCHANGED lastSequence
  BY BrowserStep DEF AudioAck, server, Next, Receive, TypeInv, TypeOK, BrowserType
<1>. QED BY <1>1 DEF AudioAck, BrowserType

LEMMA KeptStep == ASSUME TypeInv, KeptInv, [Next]_vars PROVE KeptInv'
<1>1. BrowserType /\ Grows BY TypeParts, GrowsStep
<1>2. CASE UNCHANGED <<sequence, buffered>>
  <2>1. ASSUME NEW n \in 0..(sequence - 1)
        PROVE  \/ n \in buffered' \/ n <= lastSequence'
               \/ sequence' > BufferLimit /\ Pushed(n)'
    <3>1. \/ n \in buffered \/ n <= lastSequence
          \/ sequence > BufferLimit /\ Pushed(n)
      BY DEF KeptInv
    <3>. QED BY <1>1, <1>2, <3>1 DEF Grows, Pushed
  <2>. QED BY <1>2, <2>1 DEF KeptInv
<1>3. CASE Capture
  <2> DEFINE A == buffered \cup {sequence}
  <2>1. /\ sequence \in Nat /\ sequence' = sequence + 1 /\ lastSequence' = lastSequence
        /\ buffered' = Trim(A) /\ buffered \in SUBSET (0..(sequence - 1))
        /\ Cardinality(buffered) \in Nat /\ IsFiniteSet(buffered)
    BY <1>1, <1>3, FS_CardinalityType DEF Capture, BrowserType, server
  <2>2. \/ buffered' = A
        \/ /\ sequence >= BufferLimit /\ Cardinality(buffered') = BufferLimit
           /\ \E n \in A : buffered' = A \ {n} /\ \A m \in buffered' : n < m
    BY <2>1, TrimKeeps
  <2>3. ASSUME NEW n \in 0..(sequence' - 1)
        PROVE  \/ n \in buffered' \/ n <= lastSequence'
               \/ sequence' > BufferLimit /\ Pushed(n)'
    <3>1. n = sequence \/ n \in 0..(sequence - 1) BY <2>1
    <3>2. n \in A \/ n <= lastSequence \/ (sequence > BufferLimit /\ Pushed(n))
      BY <3>1 DEF KeptInv
    <3>3. CASE n \in A
      <4>1. CASE buffered' = A BY <3>3, <4>1
      <4>2. CASE ~ buffered' = A
        <5>1. PICK a \in A : buffered' = A \ {a} /\ \A m \in buffered' : a < m
          BY <2>2, <4>2
        <5>2. sequence >= BufferLimit /\ Cardinality(buffered') = BufferLimit
          BY <2>2, <4>2
        <5>. QED BY <2>1, <3>3, <5>1, <5>2 DEF Pushed
      <4>. QED BY <4>1, <4>2
    <3>4. CASE n <= lastSequence BY <2>1, <3>4
    <3>5. CASE sequence > BufferLimit /\ Pushed(n)
      <4>1. n \notin A => n \in 0..(sequence - 1) BY <3>1
      <4>2. \A m \in A : n \in A \/ n < m BY <2>1, <3>5, <4>1 DEF Pushed
      <4>3. CASE n \in A BY <3>3, <4>3
      <4>4. CASE n \notin A
        <5>1. CASE buffered' = A
          <6>1. sequence \notin buffered BY <2>1
          <6>2. Cardinality(A) = Cardinality(buffered) + 1 BY <2>1, <6>1, FS_AddElement
          <6>3. Cardinality(buffered) = BufferLimit BY <3>5 DEF Pushed
          <6>4. Cardinality(buffered') <= BufferLimit BY <2>1, TrimKeeps
          <6>. QED BY <5>1, <6>2, <6>3, <6>4
        <5>2. CASE ~ buffered' = A
          <6>1. Cardinality(buffered') = BufferLimit /\ buffered' \subseteq A
            BY <2>2, <5>2
          <6>2. sequence' > BufferLimit BY <2>1, <3>5
          <6>. QED BY <4>2, <4>4, <6>1, <6>2 DEF Pushed
        <5>. QED BY <5>1, <5>2
      <4>. QED BY <4>3, <4>4
    <3>. QED BY <3>2, <3>3, <3>4, <3>5
  <2>. QED BY <2>3 DEF KeptInv
<1>4. ASSUME NEW k \in Conn, AudioAck(k) PROVE KeptInv'
  <2>1. /\ lastAck' \in Int /\ lastAck' <= lastSequence /\ lastSequence \in Int
        /\ buffered' = {n \in buffered : n > lastAck'}
        /\ UNCHANGED <<sequence, lastSequence>> /\ sequence \in Nat
        /\ buffered \in SUBSET (0..(sequence - 1))
    BY <1>1, <1>4, AckedIsAccepted DEF BrowserType
  <2>2. ASSUME NEW n \in 0..(sequence - 1)
        PROVE  \/ n \in buffered' \/ n <= lastSequence
               \/ sequence > BufferLimit /\ Pushed(n)'
    <3>1. CASE n \in buffered BY <2>1, <3>1
    <3>2. CASE n <= lastSequence BY <3>2
    <3>3. CASE sequence > BufferLimit /\ Pushed(n) /\ ~ n <= lastSequence
      <4>1. \A m \in buffered : m > lastAck' BY <2>1, <3>3 DEF Pushed
      <4>2. buffered' = buffered BY <2>1, <4>1
      <4>. QED BY <3>3, <4>2 DEF Pushed
    <3>. QED BY <3>1, <3>2, <3>3 DEF KeptInv
  <2>. QED BY <2>1, <2>2 DEF KeptInv
<1>. QED BY <1>2, <1>3, <1>4, OnlyTheseBuffer

LEMMA NoFrameIsForgottenInv ==
  ASSUME TypeInv, RecInv, KeptInv
  PROVE  NoFrameIsForgotten
<1> SUFFICES ASSUME recording # <<>>, NEW n \in Head(recording)..(sequence - 1)
             PROVE  \/ n \in Recorded \/ n \in buffered
                    \/ Cardinality(buffered) = BufferLimit /\ n < Min(buffered)
  BY DEF NoFrameIsForgotten
<1>1. /\ BrowserType /\ Head(recording) \in Nat /\ lastSequence \in Nat
      /\ Recorded = Head(recording)..lastSequence
  BY TypeParts, RecordedIs
<1>2. sequence \in Nat /\ n \in 0..(sequence - 1) BY <1>1 DEF BrowserType
<1>3. CASE n \in buffered BY <1>3
<1>4. CASE n <= lastSequence BY <1>1, <1>2, <1>4
<1>5. CASE Pushed(n)
  <2>1. /\ buffered \in SUBSET (0..(sequence - 1)) /\ IsFiniteSet(buffered)
        /\ Cardinality(buffered) = BufferLimit
    BY <1>1, <1>5 DEF BrowserType, Pushed
  <2>2. buffered # {} BY <2>1, FS_EmptySet
  <2>3. buffered \in SUBSET (0..sequence) BY <1>2, <2>1
  <2>4. Min(buffered) \in buffered BY <1>2, <2>2, <2>3, MinOf
  <2>. QED BY <1>5, <2>1, <2>4 DEF Pushed
<1>. QED BY <1>2, <1>3, <1>4, <1>5 DEF KeptInv

-----------------------------------------------------------------------------
(* What the actions do to the queues.                                      *)

LEMMA SendUp ==
  ASSUME TypeInv, NEW msgs, Send(msgs)
  PROVE  \A j \in Conn :
            \/ /\ up'[j] = up[j]
               /\ j # socket \/ readyState[j] # "open" \/ cut[j]
            \/ /\ j = socket /\ readyState[j] = "open" /\ ~cut[j]
               /\ up'[j] = Join(up[j], msgs)
<1> DEFINE sends == socket # 0 /\ readyState[socket] = "open" /\ ~cut[socket]
<1>1. socket \in 0..Connections /\ DOMAIN up = Conn
  BY TypeParts DEF Queues, BrowserType
<1>2. CASE sends
  <2>1. up' = [up EXCEPT ![socket] = Join(up[socket], msgs)] BY <1>2 DEF Send, Join
  <2>2. socket \in Conn BY <1>1, <1>2 DEF Conn
  <2>. QED BY <1>1, <1>2, <2>1, <2>2
<1>3. CASE ~sends
  <2>1. up' = up BY <1>3 DEF Send
  <2>2. \A j \in Conn : j = socket => j # 0 BY DEF Conn
  <2>. QED BY <1>3, <2>1, <2>2
<1>. QED BY <1>2, <1>3

LEMMA TakeUp ==
  ASSUME TypeInv, NEW k \in Conn, up[k] # <<>>, Take(k)
  PROVE  /\ \A j \in Conn : j # k => up'[j] = up[j]
         /\ up'[k] = Tail(up[k])
BY TypeParts DEF Queues, Take

LEMMA ConsumeDown ==
  ASSUME TypeInv, NEW k \in Conn, down[k] # <<>>, Consume(k)
  PROVE  /\ \A j \in Conn : j # k => down'[j] = down[j]
         /\ down'[k] = Tail(down[k])
BY TypeParts DEF Queues, Consume

LEMMA ReplyDown ==
  ASSUME TypeInv, NEW k \in Conn, NEW t, NEW n, Reply(k, t, n)
  PROVE  \A j \in Conn : \/ down'[j] = down[j]
                         \/ j = k /\ ~cut[k] /\ down'[j] = Append(down[j], Message(t, n))
BY TypeParts DEF Queues, Reply

(* No queue has a new kind of message; or the queue of j alone has, of the *)
(* kinds T.                                                                *)
Fewer(p, q) == Types(p) \subseteq Types(q) /\ Later(p) \subseteq Later(q)
More(p, q, T) ==
  /\ Types(p) \subseteq Types(q) \cup T
  /\ Later(p) \subseteq Later(q) \cup T
UpFewer == \A j \in Conn : Fewer(up'[j], up[j])
DownFewer == \A j \in Conn : Fewer(down'[j], down[j])
UpMore(T) == \A j \in Conn : \/ Fewer(up'[j], up[j])
                             \/ /\ j = socket /\ readyState[j] = "open" /\ ~cut[j]
                                /\ More(up'[j], up[j], T)
DownMore(k, t) == \A j \in Conn : \/ Fewer(down'[j], down[j])
                                  \/ /\ j = k /\ ~cut[k] /\ More(down'[j], down[j], {t})
                                     /\ down[j] = <<>> => Later(down'[j]) = {}

LEMMA SameIsFewer == \A q : Fewer(q, q)
BY DEF Fewer

LEMMA UpSame == ASSUME UNCHANGED up PROVE UpFewer
BY SameIsFewer DEF UpFewer

LEMMA DownSame == ASSUME UNCHANGED down PROVE DownFewer
BY SameIsFewer DEF DownFewer

LEMMA TakeFewer ==
  ASSUME TypeInv, NEW k \in Conn, up[k] # <<>>, Take(k)
  PROVE  /\ UpFewer /\ Types(up'[k]) = Later(up[k])
         /\ Types(up[k]) = {Head(up[k]).type} \cup Types(up'[k])
<1>1. up[k] \in Seq(UpItems) BY TypeParts DEF Queues
<1>2. /\ Types(up[k]) = {Head(up[k]).type} \cup Types(Tail(up[k]))
      /\ Later(up[k]) = Types(Tail(up[k])) /\ Later(Tail(up[k])) \subseteq Later(up[k])
  BY <1>1, TypesTail
<1>. QED BY <1>2, TakeUp, SameIsFewer DEF UpFewer, Fewer

LEMMA ConsumeFewer ==
  ASSUME TypeInv, NEW k \in Conn, down[k] # <<>>, Consume(k)
  PROVE  /\ DownFewer /\ Types(down'[k]) = Later(down[k])
         /\ Types(down[k]) = {Head(down[k]).type} \cup Types(down'[k])
<1>1. down[k] \in Seq(DownItems) BY TypeParts DEF Queues
<1>2. /\ Types(down[k]) = {Head(down[k]).type} \cup Types(Tail(down[k]))
      /\ Later(down[k]) = Types(Tail(down[k]))
      /\ Later(Tail(down[k])) \subseteq Later(down[k])
  BY <1>1, TypesTail
<1>. QED BY <1>2, ConsumeDown, SameIsFewer DEF DownFewer, Fewer

LEMMA HeadType ==
  ASSUME TypeInv
  PROVE  /\ \A k \in Conn : up[k] # <<>> => Head(up[k]).type \in Types(up[k])
         /\ \A k \in Conn : down[k] # <<>> => Head(down[k]).type \in Types(down[k])
<1>1. ASSUME NEW k \in Conn, up[k] # <<>> PROVE Head(up[k]).type \in Types(up[k])
  <2>1. up[k] \in Seq(UpItems) BY TypeParts DEF Queues
  <2>. QED BY <1>1, <2>1, TypesTail
<1>2. ASSUME NEW k \in Conn, down[k] # <<>> PROVE Head(down[k]).type \in Types(down[k])
  <2>1. down[k] \in Seq(DownItems) BY TypeParts DEF Queues
  <2>. QED BY <1>2, <2>1, TypesTail
<1>. QED BY <1>1, <1>2

LEMMA ReplyMore ==
  ASSUME TypeInv, NEW k \in Conn, NEW t \in Kinds, NEW n \in Nat \cup {-1}, Reply(k, t, n)
  PROVE  DownMore(k, t)
<1>1. ASSUME NEW j \in Conn, down'[j] = Append(down[j], Message(t, n))
      PROVE  /\ More(down'[j], down[j], {t})
             /\ down[j] = <<>> => Later(down'[j]) = {}
  <2>1. down[j] \in Seq(Messages)
    <3>1. down[j] \in Seq(DownItems) BY TypeParts DEF Queues
    <3>. QED BY <3>1, SeqGrows DEF DownItems
  <2>2. Message(t, n) \in Messages /\ Message(t, n).type = t BY MessageItems
  <2>. QED BY <1>1, <2>1, <2>2, TypesAppend DEF More
<1>2. ASSUME NEW j \in Conn
      PROVE  \/ Fewer(down'[j], down[j])
             \/ /\ j = k /\ ~cut[k] /\ More(down'[j], down[j], {t})
                /\ down[j] = <<>> => Later(down'[j]) = {}
  <2>1. CASE down'[j] = down[j] BY <2>1, SameIsFewer
  <2>2. CASE j = k /\ ~cut[k] /\ down'[j] = Append(down[j], Message(t, n))
    BY <1>1, <2>2
  <2>. QED BY <2>1, <2>2, ReplyDown
<1>. QED BY <1>2 DEF DownMore

LEMMA SendMore ==
  ASSUME TypeInv, NEW msgs \in Seq(Messages), Send(msgs)
  PROVE  UpMore(Types(msgs))
<1>1. ASSUME NEW j \in Conn, up'[j] = Join(up[j], msgs)
      PROVE  More(up'[j], up[j], Types(msgs))
  <2>1. up[j] \in Seq(Messages)
    <3>1. up[j] \in Seq(UpItems) BY TypeParts DEF Queues
    <3>. QED BY <3>1, SeqGrows DEF UpItems
  <2>. QED BY <1>1, <2>1, TypesJoin DEF More
<1>2. ASSUME NEW j \in Conn
      PROVE  \/ Fewer(up'[j], up[j])
             \/ /\ j = socket /\ readyState[j] = "open" /\ ~cut[j]
                /\ More(up'[j], up[j], Types(msgs))
  <2>1. CASE up'[j] = up[j] BY <2>1, SameIsFewer
  <2>2. CASE j = socket /\ readyState[j] = "open" /\ ~cut[j] /\ up'[j] = Join(up[j], msgs)
    BY <1>1, <2>2
  <2>. QED BY <2>1, <2>2, SendUp
<1>. QED BY <1>2 DEF UpMore

(* A message of its own.                                                   *)
LEMMA SendOne ==
  ASSUME TypeInv, NEW t \in Kinds, NEW n \in Nat \cup {-1}, Send(<<Message(t, n)>>)
  PROVE  UpMore({t})
<1>1. Message(t, n) \in Messages /\ Message(t, n).type = t BY MessageItems
<1>2. <<Message(t, n)>> \in Seq(Messages) /\ Types(<<Message(t, n)>>) = {t}
  BY <1>1 DEF Types
<1>. QED BY <1>2, SendMore

LEMMA TheseTake ==
  ASSUME NEW k \in Conn,
         \/ ServeStart(k) \/ Accept(k) \/ AcceptRaises(k) \/ AcceptDuplicate(k)
         \/ Refuse(k) \/ Control(k) \/ ServeEnd(k) \/ EndRaises(k)
  PROVE  up[k] # <<>> /\ handler[k] = "reading" /\ Take(k) /\ UNCHANGED readyState
BY DEF ServeStart, Accept, AcceptRaises, AcceptDuplicate, Refuse, Control, ServeEnd,
   EndRaises, Refused, Accepting, Serving, browser

LEMMA UpFewerSteps ==
  ASSUME TypeInv, NEW k \in Conn,
         \/ OpenFails(k) \/ Closes(k) \/ Receive(k) \/ Drop(k) \/ Serve(k)
         \/ OpenSessionFails(k) \/ AcceptRaises(k) \/ EndRaises(k) \/ AnalysisFails(k)
  PROVE  UpFewer
<1>1. CASE OpenFails(k) \/ Closes(k) \/ Receive(k) \/ Drop(k)
  BY <1>1, UpSame DEF OpenFails, Closes, Receive, Drop, SessionStarted, AudioAck,
     SessionPausedOrResumed, SessionEnded, ErrorEvent
<1>2. CASE OpenSession(k) \/ CreateAnalysis(k) \/ OpenSessionFails(k) \/ AnalysisFails(k)
  BY <1>2, UpSame DEF OpenSession, CreateAnalysis, OpenSessionFails, AnalysisFails
<1>3. CASE \/ ServeStart(k) \/ Accept(k) \/ AcceptRaises(k) \/ AcceptDuplicate(k)
           \/ Refuse(k) \/ Control(k) \/ ServeEnd(k) \/ EndRaises(k)
  BY <1>3, TheseTake, TakeFewer
<1>4. CASE Disconnected(k)
  <2>1. \A j \in Conn : up'[j] = up[j] \/ up'[j] = <<>>
    BY <1>4, TypeParts DEF Disconnected, Queues
  <2>2. \A q : Fewer(<<>>, q) BY TypesEmpty DEF Fewer
  <2>. QED BY <2>1, <2>2, SameIsFewer DEF UpFewer
<1>. QED BY <1>1, <1>2, <1>3, <1>4 DEF Serve

LEMMA UpFewerBrowser ==
  ASSUME Start \/ StartTimeout \/ Leave \/ Unmount \/ Reconnect \/ UNCHANGED vars
  PROVE  UpFewer
BY UpSame DEF Start, StartTimeout, Leave, Unmount, Reconnect, network, vars

LEMMA DownFewerBrowser ==
  ASSUME TypeInv,
         \/ Start \/ StartTimeout \/ Capture \/ ClickPause \/ ClickResume \/ End
         \/ Leave \/ Unmount \/ Reconnect \/ UNCHANGED vars
  PROVE  DownFewer
<1>1. \A q : Fewer(<<>>, q) BY TypesEmpty DEF Fewer
<1>2. CASE StartTimeout \/ Leave \/ Unmount
  <2>1. \A j \in Conn : down'[j] = down[j] \/ down'[j] = <<>>
    BY <1>2, TypeParts DEF StartTimeout, Leave, Unmount, Fail, Shows, CloseSocket, Shut, Queues
  <2>. QED BY <1>1, <2>1, SameIsFewer DEF DownFewer
<1>3. CASE \/ Start \/ Capture \/ ClickPause \/ ClickResume \/ End \/ Reconnect
           \/ UNCHANGED vars
  BY <1>3, DownSame DEF Start, Capture, ClickPause, ClickResume, End, Reconnect, network,
     vars
<1>. QED BY <1>2, <1>3

LEMMA DownFewerSteps ==
  ASSUME TypeInv, NEW k \in Conn,
         \/ Opens(k) \/ OpenFails(k) \/ Closes(k) \/ Receive(k) \/ Drop(k)
         \/ ServeEnd(k) \/ Disconnected(k) \/ OpenSessionFails(k) \/ AcceptRaises(k)
         \/ EndRaises(k) \/ AnalysisFails(k)
  PROVE  DownFewer
<1>1. \A q : Fewer(<<>>, q) BY TypesEmpty DEF Fewer
<1>2. CASE \/ Opens(k) \/ ServeEnd(k) \/ Disconnected(k) \/ OpenSessionFails(k)
           \/ AcceptRaises(k) \/ EndRaises(k) \/ AnalysisFails(k)
  BY <1>2, DownSame DEF Opens, ServeEnd, Disconnected, OpenSessionFails, AcceptRaises,
     EndRaises, AnalysisFails
<1>3. CASE OpenFails(k) \/ Closes(k)
  <2>1. \A j \in Conn : down'[j] = down[j] \/ down'[j] = <<>>
    BY <1>3, TypeParts DEF OpenFails, Closes, ScheduleReconnect, Fail, CloseSocket, Queues
  <2>. QED BY <1>1, <2>1, SameIsFewer DEF DownFewer
<1>4. CASE SessionStarted(k) \/ AudioAck(k) \/ SessionPausedOrResumed(k) \/ ErrorEvent(k)
  BY <1>4, ConsumeFewer DEF SessionStarted, AudioAck, SessionPausedOrResumed, ErrorEvent,
     Incoming
<1>5. CASE SessionEnded(k)
  <2>1. down[k] \in Seq(DownItems) /\ down[k] # <<>>
    BY <1>5, TypeParts DEF Queues, SessionEnded, Incoming
  <2>2. Fewer(Tail(down[k]), down[k]) BY <2>1, TypesTail DEF Fewer
  <2>3. \A j \in Conn : \/ down'[j] = down[j] \/ down'[j] = <<>>
                        \/ j = k /\ down'[j] = Tail(down[j])
    BY <1>5, TypeParts DEF SessionEnded, Queues
  <2>. QED BY <1>1, <2>2, <2>3, SameIsFewer DEF DownFewer
<1>6. CASE Drop(k)
  <2>1. PICK i \in 0..Len(down[k]) : down' = [down EXCEPT ![k] = SubSeq(@, 1, i)]
    BY <1>6 DEF Drop
  <2>2. down[k] \in Seq(DownItems) /\ DOMAIN down = Conn BY TypeParts DEF Queues
  <2>3. Fewer(SubSeq(down[k], 1, i), down[k]) BY <2>2, TypesPrefix DEF Fewer
  <2>4. \A j \in Conn : j # k => down'[j] = down[j] BY <2>1, <2>2
  <2>5. down'[k] = SubSeq(down[k], 1, i) BY <2>1, <2>2
  <2>. QED BY <2>3, <2>4, <2>5, SameIsFewer DEF DownFewer
<1>. QED BY <1>2, <1>3, <1>4, <1>5, <1>6 DEF Receive

-----------------------------------------------------------------------------
(* The ends of a connection.                                               *)

LEMMA EndsStep == ASSUME TypeInv, EndsInv, FirstInv, [Next]_vars PROVE EndsInv'
<1>1. ServerType /\ BrowserType /\ Queues /\ socket = opened /\ opened \in 0..Connections
  BY TypeParts DEF BrowserType
<1>2. /\ DOMAIN up = Conn /\ DOMAIN down = Conn /\ DOMAIN readyState = Conn
      /\ DOMAIN cut = Conn /\ DOMAIN handler = Conn
  BY <1>1 DEF ServerType, Queues
<1>3. \A k \in Conn : k \in 1..Connections BY DEF Conn
<1>4. CASE Start \/ Reconnect
  <2>1. /\ opened' = opened + 1 /\ opened < Connections
        /\ readyState' = [readyState EXCEPT ![opened + 1] = "connecting"]
        /\ UNCHANGED <<up, down, cut, handler>>
    BY <1>4 DEF Start, Reconnect, Connect, network, server
  <2>2. \A k \in Conn : readyState'[k] = IF k = opened + 1 THEN "connecting" ELSE readyState[k]
    BY <1>2, <2>1
  <2>. QED BY <1>1, <1>3, <2>1, <2>2 DEF EndsInv
<1>5. CASE StartTimeout
  BY <1>1, <1>2, <1>3, <1>5 DEF StartTimeout, Fail, Shows, CloseSocket, Shut, server, EndsInv
<1>6. ASSUME NEW msgs, Send(msgs), UNCHANGED <<opened, readyState, down, cut, handler>>
      PROVE  EndsInv'
  BY <1>6, SendUp DEF EndsInv
<1>7. CASE Capture \/ ClickPause \/ ClickResume \/ End
  BY <1>6, <1>7 DEF Capture, ClickPause, ClickResume, End, browser, server
<1>8. CASE Leave \/ Unmount
  <2>1. CASE Leave BY <1>1, <1>2, <2>1 DEF Leave, server, EndsInv
  <2>2. CASE Unmount
    <3>1. ASSUME NEW j \in Conn
          PROVE  /\ readyState'[j] = IF j = socket THEN Shut(readyState[j]) ELSE readyState[j]
                 /\ down'[j] = IF j = socket THEN <<>> ELSE down[j]
                 /\ cut'[j] = IF j = socket THEN TRUE ELSE cut[j]
      BY <1>2, <2>2, CloseSocketAt DEF Unmount
    <3>2. UNCHANGED <<opened, up, handler>> BY <2>2 DEF Unmount, server
    <3>3. \A j \in Conn : j = socket => ~ j > opened BY <1>1, <1>3
    <3>. QED BY <3>1, <3>2, <3>3, Shuts DEF EndsInv
  <2>. QED BY <1>8, <2>1, <2>2
<1>9. ASSUME NEW k \in Conn, Opens(k) PROVE EndsInv'
  <2>1. /\ readyState[k] = "connecting"
        /\ readyState' = [readyState EXCEPT ![k] = "open"]
        /\ handler' = [handler EXCEPT ![k] = "reading"]
        /\ UNCHANGED <<opened, down, cut>>
        /\ \/ up' = up
           \/ /\ readyState'[socket] = "open"
              /\ up' = [up EXCEPT ![socket] = @ \o FirstMessages(k)]
    BY <1>9 DEF Opens
  <2>2. \A j \in Conn : readyState'[j] = IF j = k THEN "open" ELSE readyState[j]
    BY <1>2, <2>1
  <2>3. \A j \in Conn : up'[j] = up[j] \/ readyState'[j] = "open" BY <1>2, <2>1
  <2>4. \A j \in Conn : handler'[j] = IF j = k THEN "reading" ELSE handler[j]
    BY <1>2, <2>1
  <2>. QED BY <2>1, <2>2, <2>3, <2>4 DEF EndsInv
<1>10. ASSUME NEW k \in Conn, OpenFails(k) \/ Closes(k) PROVE EndsInv'
  <2>1. UNCHANGED <<opened, up, handler>> BY <1>10 DEF OpenFails, Closes, server
  <2>2. /\ OpenFails(k) => readyState[k] \in {"connecting", "closing"}
        /\ Closes(k) => readyState[k] = "open" /\ cut[k] /\ down[k] = <<>>
    BY <1>10 DEF OpenFails, Closes
  <2>3. \A j \in Conn : j = socket => ~ j > opened BY <1>1, <1>3
  <2>4. OpenFails(k) /\ k = 1 => k = socket
    <3>1. SUFFICES ASSUME OpenFails(k), k = 1 PROVE k = socket OBVIOUS
    <3>2. readyState[1] \in {"connecting", "closing"} BY <2>2, <3>1
    <3>3. ~ opened >= 2 BY <3>2 DEF FirstInv
    <3>4. ~ 1 > opened BY <3>1, <3>2 DEF EndsInv
    <3>. QED BY <1>1, <3>1, <3>3, <3>4, ConstantsAssumption
  <2>5. ASSUME NEW j \in Conn
        PROVE  /\ readyState'[j] = "none" <=> readyState[j] = "none"
               /\ readyState'[j] \in {"connecting", "closing"} =>
                     readyState[j] \in {"connecting", "closing"}
               /\ readyState'[j] = "connecting" => readyState[j] = "connecting" /\ cut'[j] = cut[j]
               /\ readyState'[j] = "none" => cut'[j] = cut[j]
               /\ readyState'[j] \in {"closing", "closed"} => cut'[j] /\ down'[j] = <<>>
               /\ down'[j] \in {down[j], <<>>}
    <3>1. CASE readyState'[j] = readyState[j] /\ cut'[j] = cut[j] /\ down'[j] = down[j] /\ j # k
      BY <3>1 DEF EndsInv
    <3>2. CASE /\ readyState'[j] = "closed" /\ j = k
               /\ \/ cut'[j] = TRUE
                  \/ cut'[j] = cut[j] /\ (Closes(k) \/ (k = 1 /\ k # socket))
               /\ down'[j] \in {down[j], <<>>}
      <4>1. readyState[j] # "none" BY <1>10, <2>2, <3>2
      <4>2. down[j] = <<>> BY <1>10, <2>2, <3>2 DEF EndsInv
      <4>3. cut'[j] BY <1>10, <2>2, <2>4, <3>2
      <4>. QED BY <3>2, <4>1, <4>2, <4>3
    <3>3. CASE /\ readyState'[j] = Shut(readyState[j]) /\ j = socket
               /\ cut'[j] = TRUE /\ down'[j] = <<>>
      <4>1. readyState[j] # "none" BY <2>3, <3>3 DEF EndsInv
      <4>. QED BY <3>3, <4>1, Shuts
    <3>. QED BY <1>10, <3>1, <3>2, <3>3, LossAt
  <2>. QED BY <2>1, <2>5 DEF EndsInv
<1>12. ASSUME NEW k \in Conn,
              SessionStarted(k) \/ AudioAck(k) \/ SessionPausedOrResumed(k) \/ ErrorEvent(k)
       PROVE  EndsInv'
  <2>1. /\ readyState[k] = "open" /\ down[k] # <<>> /\ Consume(k)
        /\ UNCHANGED <<opened, readyState, up, cut, handler>>
    BY <1>12 DEF SessionStarted, AudioAck, SessionPausedOrResumed, ErrorEvent, Incoming,
       server
  <2>2. \A j \in Conn : down'[j] = down[j] \/ j = k BY <2>1, ConsumeDown
  <2>. QED BY <2>1, <2>2 DEF EndsInv
<1>13. ASSUME NEW k \in Conn, SessionEnded(k) PROVE EndsInv'
  <2>1. readyState[k] = "open" BY <1>13 DEF SessionEnded, Incoming
  <2>2. \A j \in Conn : \/ down'[j] = down[j] /\ j # socket
                        \/ j = socket /\ down'[j] = <<>>
                        \/ j = k /\ j # socket
    BY <1>2, <1>13 DEF SessionEnded
  <2>3. \A j \in Conn : /\ readyState'[j] = IF j = socket THEN Shut(readyState[j])
                                           ELSE readyState[j]
                        /\ cut'[j] = IF j = socket THEN TRUE ELSE cut[j]
    BY <1>2, <1>13 DEF SessionEnded
  <2>4. UNCHANGED <<opened, up, handler>> BY <1>13 DEF SessionEnded, server
  <2>5. \A j \in Conn : j = socket => ~ j > opened BY <1>1, <1>3
  <2>6. ASSUME NEW j \in Conn, j = socket
        PROVE  /\ readyState'[j] \in {"closing", "closed"} /\ readyState[j] # "none"
               /\ readyState'[j] = "closing" => readyState[j] \in {"connecting", "closing"}
               /\ cut'[j] /\ down'[j] = <<>>
    BY <2>2, <2>3, <2>5, <2>6, Shuts DEF EndsInv
  <2>7. ASSUME NEW j \in Conn, j # socket
        PROVE  /\ readyState'[j] = readyState[j] /\ cut'[j] = cut[j]
               /\ down'[j] = down[j] \/ readyState[j] = "open"
    BY <2>1, <2>2, <2>3, <2>7
  <2>. QED BY <2>4, <2>6, <2>7 DEF EndsInv
<1>14. ASSUME NEW k \in Conn, NEW t, NEW n, Reply(k, t, n), handler[k] # "none"
       PROVE  \A j \in Conn : \/ down'[j] = down[j]
                              \/ j = k /\ readyState[j] = "open"
  <2>1. ~cut[k] => readyState[k] = "open" BY <1>1, <1>14 DEF EndsInv, ServerType
  <2>. QED BY <1>14, <2>1, ReplyDown
<1>15. ASSUME NEW k \in Conn, up[k] # <<>>, Take(k)
       PROVE  \A j \in Conn : \/ up'[j] = up[j]
                              \/ readyState[j] \notin {"none", "connecting", "closing"}
  BY <1>15, TakeUp DEF EndsInv
<1>16. ASSUME NEW k \in Conn, handler[k] # "none", UNCHANGED <<opened, readyState>>,
              handler' = handler \/ \E p : handler' = [handler EXCEPT ![k] = p],
              cut' = cut \/ cut' = [cut EXCEPT ![k] = TRUE],
              \A j \in Conn : \/ up'[j] = up[j]
                              \/ readyState[j] \notin {"none", "connecting", "closing"},
              \A j \in Conn : \/ down'[j] = down[j]
                              \/ j = k /\ readyState[j] = "open"
       PROVE  EndsInv'
  <2>1. \A j \in Conn : j # k => handler'[j] = handler[j] /\ cut'[j] = cut[j]
    BY <1>2, <1>16
  <2>2. cut'[k] = cut[k] \/ cut'[k] = TRUE BY <1>2, <1>16
  <2>3. readyState[k] \notin {"none", "connecting", "closing"} BY <1>16 DEF EndsInv
  <2>. QED BY <1>16, <2>1, <2>2, <2>3 DEF EndsInv
<1>17. ASSUME NEW k \in Conn,
              ServeStart(k) \/ Accept(k) \/ AcceptDuplicate(k) \/ Refuse(k) \/ Control(k)
       PROVE  EndsInv'
  <2>1. /\ \E t, n : Reply(k, t, n) \/ UNCHANGED down
        /\ handler' = handler \/ \E p : handler' = [handler EXCEPT ![k] = p]
        /\ UNCHANGED <<opened, readyState, cut>>
    BY <1>17 DEF ServeStart, Accept, AcceptDuplicate, Refuse, Control, Goes, browser
  <2>2. up[k] # <<>> /\ Take(k) /\ handler[k] = "reading" BY <1>17, TheseTake
  <2>3. \A j \in Conn : down'[j] = down[j] \/ (j = k /\ readyState[j] = "open")
    BY <1>14, <2>1, <2>2
  <2>. QED BY <1>15, <1>16, <2>1, <2>2, <2>3
<1>18. ASSUME NEW k \in Conn, AcceptRaises(k) \/ ServeEnd(k) \/ EndRaises(k) PROVE EndsInv'
  <2>1. /\ UNCHANGED <<opened, readyState, down>>
        /\ \E p : handler' = [handler EXCEPT ![k] = p]
        /\ cut' = cut \/ cut' = [cut EXCEPT ![k] = TRUE]
    BY <1>18 DEF AcceptRaises, ServeEnd, EndRaises, Raises, Goes, browser
  <2>2. up[k] # <<>> /\ Take(k) /\ handler[k] = "reading" BY <1>18, TheseTake
  <2>. QED BY <1>15, <1>16, <2>1, <2>2
<1>19. ASSUME NEW k \in Conn, OpenSession(k) \/ CreateAnalysis(k) PROVE EndsInv'
  <2>1. /\ \E t, n : Reply(k, t, n) \/ UNCHANGED down
        /\ \E p : handler' = [handler EXCEPT ![k] = p]
        /\ cut' = cut \/ cut' = [cut EXCEPT ![k] = TRUE]
        /\ UNCHANGED <<opened, readyState, up>> /\ handler[k] # "none"
    BY <1>19 DEF OpenSession, CreateAnalysis, Goes, browser
  <2>2. \A j \in Conn : down'[j] = down[j] \/ (j = k /\ readyState[j] = "open")
    BY <1>14, <2>1
  <2>. QED BY <1>16, <2>1, <2>2
<1>20. ASSUME NEW k \in Conn, OpenSessionFails(k) \/ AnalysisFails(k) PROVE EndsInv'
  <2>1. /\ \E p : handler' = [handler EXCEPT ![k] = p]
        /\ cut' = [cut EXCEPT ![k] = TRUE]
        /\ UNCHANGED <<opened, readyState, up, down>> /\ handler[k] # "none"
    BY <1>20 DEF OpenSessionFails, AnalysisFails, Raises, Goes, browser
  <2>. QED BY <1>16, <2>1
<1>21. ASSUME NEW k \in Conn, Disconnected(k) PROVE EndsInv'
  <2>1. /\ \E p : handler' = [handler EXCEPT ![k] = p]
        /\ UNCHANGED <<opened, readyState, cut, down>> /\ handler[k] # "none"
        /\ up' = [up EXCEPT ![k] = <<>>]
    BY <1>21 DEF Disconnected, Goes, browser
  <2>2. \A j \in Conn : up'[j] = up[j] \/ readyState[j] \notin {"none", "connecting", "closing"}
    BY <1>2, <2>1 DEF EndsInv
  <2>. QED BY <1>16, <2>1, <2>2
<1>22. ASSUME NEW k \in Conn, Drop(k) PROVE EndsInv'
  <2>1. /\ UNCHANGED <<opened, readyState, up, handler>> /\ readyState[k] = "open"
        /\ \A j \in Conn : j # k => cut'[j] = cut[j] /\ down'[j] = down[j]
    BY <1>2, <1>22 DEF Drop, browser, server
  <2>. QED BY <2>1 DEF EndsInv
<1>23. CASE UNCHANGED vars
  BY <1>23 DEF vars, browser, network, server, EndsInv
<1>. QED BY <1>4, <1>5, <1>7, <1>8, <1>9, <1>10, <1>12, <1>13, <1>17, <1>18, <1>19,
            <1>20, <1>21, <1>22, <1>23
     DEF Next, Receive, Serve

-----------------------------------------------------------------------------
(* Who changes what.                                                       *)

LEMMA SessionChanges ==
  ASSUME [Next]_vars
  PROVE  \/ session' = session
         \/ \E k \in Conn : OpenSession(k) \/ ServeEnd(k)
<1>1. CASE \/ Start \/ StartTimeout \/ Capture \/ ClickPause \/ ClickResume \/ End
           \/ Leave \/ Unmount \/ Reconnect \/ UNCHANGED vars
  BY <1>1 DEF Start, StartTimeout, Capture, ClickPause, ClickResume, End, Leave, Unmount, Reconnect,
     server, vars
<1>2. ASSUME NEW k \in Conn, Opens(k) \/ OpenFails(k) \/ Closes(k) \/ Receive(k) \/ Drop(k)
      PROVE  session' = session
  BY <1>2 DEF Opens, OpenFails, Closes, Receive, Drop, SessionStarted, AudioAck,
     SessionPausedOrResumed, SessionEnded, ErrorEvent, server
<1>3. ASSUME NEW k \in Conn,
             \/ ServeStart(k) \/ Accept(k) \/ AcceptDuplicate(k) \/ Refuse(k)
             \/ Control(k) \/ CreateAnalysis(k) \/ Disconnected(k)
             \/ OpenSessionFails(k) \/ AcceptRaises(k) \/ EndRaises(k) \/ AnalysisFails(k)
      PROVE  session' = session
  BY <1>3 DEF ServeStart, Accept, AcceptDuplicate, Refuse, Control, CreateAnalysis,
     Disconnected, OpenSessionFails, AcceptRaises, EndRaises, AnalysisFails
<1>. QED BY <1>1, <1>2, <1>3 DEF Next, Serve

LEMMA HandlerChanges ==
  ASSUME TypeInv, [Next]_vars, NEW j \in Conn
  PROVE  \/ handler'[j] = handler[j]
         \/ handler'[j] = "done"
         \/ Opens(j) /\ handler'[j] = "reading"
         \/ ServeStart(j) /\ handler'[j] = "starting" /\ session # "open"
         \/ OpenSession(j) /\ handler'[j] = "reading"
         \/ ServeEnd(j) /\ handler'[j] \in {"ending", "endingAgain"}
         \/ CreateAnalysis(j) /\ handler'[j] = "reading"
<1>1. DOMAIN handler = Conn BY TypeParts DEF ServerType
<1>2. CASE \/ Start \/ StartTimeout \/ Capture \/ ClickPause \/ ClickResume \/ End
           \/ Leave \/ Unmount \/ Reconnect \/ UNCHANGED vars
  BY <1>2 DEF Start, StartTimeout, Capture, ClickPause, ClickResume, End, Leave, Unmount, Reconnect,
     server, vars
<1>3. ASSUME NEW k \in Conn,
             \/ OpenFails(k) \/ Closes(k) \/ Receive(k) \/ Drop(k) \/ Accept(k)
             \/ AcceptDuplicate(k) \/ Refuse(k) \/ Control(k)
      PROVE  handler'[j] = handler[j]
  BY <1>3 DEF OpenFails, Closes, Receive, Drop, SessionStarted, AudioAck,
     SessionPausedOrResumed, SessionEnded, ErrorEvent, Accept, AcceptDuplicate, Refuse,
     Control, server
<1>4. ASSUME NEW k \in Conn, NEW p, handler' = [handler EXCEPT ![k] = p]
      PROVE  handler'[j] = handler[j] \/ (j = k /\ handler'[j] = p)
  BY <1>1, <1>4
<1>5. ASSUME NEW k \in Conn,
             \/ Disconnected(k) \/ OpenSessionFails(k) \/ AcceptRaises(k) \/ EndRaises(k)
             \/ AnalysisFails(k)
      PROVE  handler'[j] = handler[j] \/ handler'[j] = "done"
  BY <1>4, <1>5 DEF Disconnected, OpenSessionFails, AcceptRaises, EndRaises, AnalysisFails,
     Raises, Goes
<1>6. ASSUME NEW k \in Conn, Opens(k)
      PROVE  handler'[j] = handler[j] \/ (Opens(j) /\ handler'[j] = "reading")
  <2>1. handler' = [handler EXCEPT ![k] = "reading"] BY <1>6 DEF Opens
  <2>. QED BY <1>4, <1>6, <2>1
<1>7. ASSUME NEW k \in Conn, OpenSession(k)
      PROVE  handler'[j] = handler[j] \/ (OpenSession(j) /\ handler'[j] = "reading")
  <2>1. handler' = [handler EXCEPT ![k] = "reading"] BY <1>7 DEF OpenSession, Goes
  <2>. QED BY <1>4, <1>7, <2>1
<1>8. ASSUME NEW k \in Conn, ServeStart(k)
      PROVE  \/ handler'[j] = handler[j]
             \/ ServeStart(j) /\ handler'[j] = "starting" /\ session # "open"
  BY <1>4, <1>8 DEF ServeStart, Goes
<1>9. ASSUME NEW k \in Conn, ServeEnd(k)
      PROVE  \/ handler'[j] = handler[j]
             \/ ServeEnd(j) /\ handler'[j] \in {"ending", "endingAgain"}
  <2>1. PICK p \in {"ending", "endingAgain"} : handler' = [handler EXCEPT ![k] = p]
    BY <1>9 DEF ServeEnd, Goes
  <2>. QED BY <1>4, <1>9, <2>1
<1>10. ASSUME NEW k \in Conn, CreateAnalysis(k)
       PROVE  \/ handler'[j] = handler[j] \/ handler'[j] = "done"
              \/ CreateAnalysis(j) /\ handler'[j] = "reading"
  <2>1. PICK p \in {"done", "reading"} : handler' = [handler EXCEPT ![k] = p]
    BY <1>10 DEF CreateAnalysis, Goes
  <2>. QED BY <1>4, <1>10, <2>1
<1>. QED BY <1>2, <1>3, <1>5, <1>6, <1>7, <1>8, <1>9, <1>10 DEF Next, Serve

LEMMA ReadyChanges ==
  ASSUME TypeInv, EndsInv, [Next]_vars, NEW j \in Conn
  PROVE  \/ readyState'[j] = readyState[j]
         \/ readyState'[j] = "closed" /\ readyState[j] # "none"
         \/ readyState'[j] = "closing" /\ readyState[j] \in {"connecting", "closing"}
         \/ readyState[j] = "none" /\ readyState'[j] = "connecting" /\ opened' = j
         \/ Opens(j) /\ readyState'[j] = "open"
<1>1. DOMAIN readyState = Conn /\ socket = opened /\ opened \in 0..Connections
  BY TypeParts DEF ServerType, BrowserType
<1>2. \A k \in Conn : k = socket => readyState[k] # "none" BY <1>1 DEF EndsInv, Conn
<1>3. CASE Start \/ Reconnect
  <2>1. /\ opened' = opened + 1 /\ opened < Connections
        /\ readyState' = [readyState EXCEPT ![opened + 1] = "connecting"]
    BY <1>3 DEF Start, Reconnect, Connect
  <2>2. CASE j = opened + 1
    <3>1. readyState[j] = "none" BY <1>1, <2>2 DEF EndsInv
    <3>. QED BY <1>1, <2>1, <2>2, <3>1
  <2>3. CASE j # opened + 1 BY <1>1, <2>1, <2>3
  <2>. QED BY <2>2, <2>3
<1>4. CASE StartTimeout \/ Unmount
  <2>1. CloseSocket(readyState) BY <1>4 DEF StartTimeout, Unmount, Fail
  <2>2. readyState'[j] = IF j = socket THEN Shut(readyState[j]) ELSE readyState[j]
    BY <1>1, <2>1, CloseSocketAt
  <2>. QED BY <1>2, <2>2, Shuts
<1>5. CASE Leave BY <1>1, <1>5 DEF Leave
<1>6. ASSUME NEW k \in Conn, OpenFails(k) \/ Closes(k) \/ SessionEnded(k)
      PROVE  \/ readyState'[j] = readyState[j]
             \/ readyState'[j] = "closed" /\ readyState[j] # "none"
             \/ readyState'[j] = "closing" /\ readyState[j] \in {"connecting", "closing"}
  <2>1. CASE OpenFails(k) \/ Closes(k)
    <3>1. readyState[k] # "none" BY <2>1 DEF OpenFails, Closes
    <3>2. \/ readyState'[j] = readyState[j]
          \/ readyState'[j] = "closed" /\ j = k
          \/ readyState'[j] = Shut(readyState[j]) /\ j = socket
      BY <2>1, LossAt
    <3>3. CASE readyState'[j] = Shut(readyState[j]) /\ j = socket
      <4>1. readyState[j] # "none" BY <1>2, <3>3
      <4>2. /\ Shut(readyState[j]) \in {"closing", "closed"}
            /\ Shut(readyState[j]) = "closing" => readyState[j] \in {"connecting", "closing"}
        BY Shuts
      <4>. QED BY <3>3, <4>1, <4>2
    <3>. QED BY <3>1, <3>2, <3>3
  <2>2. CASE SessionEnded(k)
    <3>1. readyState'[j] = IF j = socket THEN Shut(readyState[j]) ELSE readyState[j]
      BY <1>1, <2>2 DEF SessionEnded
    <3>. QED BY <1>2, <3>1, Shuts
  <2>. QED BY <1>6, <2>1, <2>2
<1>7. ASSUME NEW k \in Conn, Opens(k)
      PROVE  readyState'[j] = readyState[j] \/ (Opens(j) /\ readyState'[j] = "open")
  BY <1>1, <1>7 DEF Opens
<1>8. CASE Capture \/ ClickPause \/ ClickResume \/ End \/ UNCHANGED vars
  BY <1>8 DEF Capture, ClickPause, ClickResume, End, browser, vars
<1>9. ASSUME NEW k \in Conn,
             \/ SessionStarted(k) \/ AudioAck(k) \/ SessionPausedOrResumed(k)
             \/ ErrorEvent(k) \/ Drop(k)
      PROVE  readyState'[j] = readyState[j]
  BY <1>9 DEF SessionStarted, AudioAck, SessionPausedOrResumed, ErrorEvent, Drop, browser
<1>10. ASSUME NEW k \in Conn, Serve(k) \/ OpenSessionFails(k) \/ AcceptRaises(k)
                              \/ EndRaises(k) \/ AnalysisFails(k)
       PROVE  readyState'[j] = readyState[j]
  BY <1>10 DEF Serve, ServeStart, OpenSession, Accept, AcceptDuplicate, Refuse, Control,
     ServeEnd, CreateAnalysis, Disconnected, OpenSessionFails, AcceptRaises, EndRaises,
     AnalysisFails, browser
<1>. QED BY <1>3, <1>4, <1>5, <1>6, <1>7, <1>8, <1>9, <1>10 DEF Next, Receive

(* The page: what it shows, its connections and its timers.  An event that *)
(* it handles is the first of its connection.                              *)
Handles(k, t) ==
    /\ readyState[k] = "open" /\ down[k] # <<>> /\ Head(down[k]).type = t
    /\ Types(down'[k]) \subseteq Later(down[k])

LEMMA TheseHandle ==
  ASSUME TypeInv, NEW k \in Conn, NEW t, Incoming(k, t),
         Consume(k) \/ SessionEnded(k)
  PROVE  Handles(k, t)
<1>1. readyState[k] = "open" /\ down[k] # <<>> /\ Head(down[k]).type = t BY DEF Incoming
<1>2. CASE Consume(k) BY <1>1, <1>2, ConsumeFewer DEF Handles
<1>3. CASE SessionEnded(k)
  <2>1. down[k] \in Seq(DownItems) BY TypeParts DEF Queues
  <2>2. Later(down[k]) = Types(Tail(down[k])) BY <1>1, <2>1, TypesTail
  <2>3. down'[k] = <<>> \/ down'[k] = Tail(down[k])
    BY <1>3, TypeParts DEF SessionEnded, Queues
  <2>. QED BY <1>1, <2>2, <2>3, TypesEmpty DEF Handles
<1>. QED BY <1>2, <1>3

LEMMA StatusChanges ==
  ASSUME TypeInv, [Next]_vars
  PROVE  \/ status' = status
         \/ Start /\ status = "idle" /\ status' = "connecting"
         \/ status' \in {"error", "gone"}
         \/ End /\ status \in {"recording", "paused"} /\ status' = "ending"
         \/ \E k \in Conn :
               \/ /\ status' = "recording"
                  /\ Handles(k, "session_started") \/ Handles(k, "session_resumed")
               \/ status' = "paused" /\ Handles(k, "session_paused")
               \/ status' = "ended" /\ Handles(k, "session_ended")
<1>1. CASE Start \/ StartTimeout \/ End \/ Leave \/ Unmount
  BY <1>1 DEF Start, StartTimeout, Fail, Shows, End, Leave, Unmount
<1>2. CASE Capture \/ ClickPause \/ ClickResume \/ Reconnect \/ UNCHANGED vars
  BY <1>2 DEF Capture, ClickPause, ClickResume, Reconnect, browser, vars
<1>3. ASSUME NEW k \in Conn, OpenFails(k) \/ Closes(k)
      PROVE  status' \in {"error", "gone", status}
  BY <1>3 DEF OpenFails, Closes, Fail, Shows, ScheduleReconnect
<1>4. ASSUME NEW k \in Conn, SessionStarted(k)
      PROVE  status' = "gone" \/ (status' = "recording" /\ Handles(k, "session_started"))
  BY <1>4, TheseHandle DEF SessionStarted, Shows
<1>5. ASSUME NEW k \in Conn, SessionPausedOrResumed(k)
      PROVE  \/ status' = "recording" /\ Handles(k, "session_resumed")
             \/ status' = "paused" /\ Handles(k, "session_paused")
             \/ status' = "gone"
  BY <1>5, TheseHandle DEF SessionPausedOrResumed, Shows
<1>6. ASSUME NEW k \in Conn, SessionEnded(k)
      PROVE  status' = "gone" \/ (status' = "ended" /\ Handles(k, "session_ended"))
  <2>1. status' \in {"ended", "gone"} /\ Incoming(k, "session_ended")
    BY <1>6 DEF SessionEnded, Shows
  <2>. QED BY <1>6, <2>1, TheseHandle
<1>7. ASSUME NEW k \in Conn, AudioAck(k) \/ ErrorEvent(k) \/ Opens(k) \/ Drop(k)
      PROVE  status' \in {"error", "gone", status}
  BY <1>7 DEF AudioAck, ErrorEvent, Shows, Opens, Drop, browser
<1>8. ASSUME NEW k \in Conn, Serve(k) \/ OpenSessionFails(k) \/ AcceptRaises(k)
                             \/ EndRaises(k) \/ AnalysisFails(k)
      PROVE  status' = status
  BY <1>8 DEF Serve, ServeStart, OpenSession, Accept, AcceptDuplicate, Refuse, Control,
     ServeEnd, CreateAnalysis, Disconnected, OpenSessionFails, AcceptRaises, EndRaises,
     AnalysisFails, browser
<1>. QED BY <1>1, <1>2, <1>3, <1>4, <1>5, <1>6, <1>7, <1>8 DEF Next, Receive

LEMMA OpenedChanges ==
  ASSUME [Next]_vars
  PROVE  \/ opened' = opened
         \/ Start /\ status = "idle" /\ opened' = opened + 1 /\ timers' = timers
         \/ Reconnect /\ timers > 0 /\ opened' = opened + 1 /\ timers' = timers - 1
<1>1. CASE Start \/ Reconnect BY <1>1 DEF Start, Reconnect, Connect
<1>2. CASE \/ StartTimeout \/ Capture \/ ClickPause \/ ClickResume \/ End \/ Leave \/ Unmount
           \/ UNCHANGED vars
  BY <1>2 DEF StartTimeout, Capture, ClickPause, ClickResume, End, Leave, Unmount, browser, vars
<1>3. ASSUME NEW k \in Conn, Opens(k) \/ OpenFails(k) \/ Closes(k) \/ Receive(k) \/ Drop(k)
      PROVE  opened' = opened
  BY <1>3 DEF Opens, OpenFails, Closes, Receive, Drop, SessionStarted, AudioAck,
     SessionPausedOrResumed, SessionEnded, ErrorEvent, browser
<1>4. ASSUME NEW k \in Conn, Serve(k) \/ OpenSessionFails(k) \/ AcceptRaises(k)
                             \/ EndRaises(k) \/ AnalysisFails(k)
      PROVE  opened' = opened
  BY <1>4 DEF Serve, ServeStart, OpenSession, Accept, AcceptDuplicate, Refuse, Control,
     ServeEnd, CreateAnalysis, Disconnected, OpenSessionFails, AcceptRaises, EndRaises,
     AnalysisFails, browser
<1>. QED BY <1>1, <1>2, <1>3, <1>4 DEF Next

LEMMA TimersChange ==
  ASSUME TypeInv, [Next]_vars
  PROVE  \/ timers' \in 0..timers
         \/ \E k \in Conn : /\ readyState[k] = "open" /\ status \in {"recording", "paused"}
                            /\ readyState'[k] = "closed" /\ opened' = opened
         \/ \E k \in Conn : /\ k # 1 /\ readyState[k] # "none" /\ opened' = opened
                            /\ OpenFails(k)
<1>1. timers \in Nat /\ DOMAIN readyState = Conn
  BY TypeParts DEF BrowserType, ServerType
<1>2. CASE Start \/ StartTimeout \/ Leave \/ Unmount \/ Reconnect
  BY <1>1, <1>2 DEF Start, StartTimeout, Leave, Unmount, Reconnect
<1>3. CASE Capture \/ ClickPause \/ ClickResume \/ End \/ UNCHANGED vars
  BY <1>1, <1>3 DEF Capture, ClickPause, ClickResume, End, browser, vars
<1>4. ASSUME NEW k \in Conn, OpenFails(k)
      PROVE  \/ timers' = timers
             \/ k # 1 /\ readyState[k] # "none" /\ opened' = opened
  BY <1>4 DEF OpenFails
<1>5. ASSUME NEW k \in Conn, Closes(k)
      PROVE  \/ timers' = timers
             \/ /\ readyState[k] = "open" /\ status \in {"recording", "paused"}
                /\ readyState'[k] = "closed" /\ opened' = opened
  BY <1>1, <1>5 DEF Closes, ScheduleReconnect, Reconnecting
<1>6. ASSUME NEW k \in Conn, Opens(k) \/ Receive(k) \/ Drop(k)
      PROVE  timers' = timers
  BY <1>6 DEF Opens, Receive, Drop, SessionStarted, AudioAck, SessionPausedOrResumed,
     SessionEnded, ErrorEvent, browser
<1>7. ASSUME NEW k \in Conn, Serve(k) \/ OpenSessionFails(k) \/ AcceptRaises(k)
                             \/ EndRaises(k) \/ AnalysisFails(k)
      PROVE  timers' = timers
  BY <1>7 DEF Serve, ServeStart, OpenSession, Accept, AcceptDuplicate, Refuse, Control,
     ServeEnd, CreateAnalysis, Disconnected, OpenSessionFails, AcceptRaises, EndRaises,
     AnalysisFails, browser
<1>8. timers \in 0..timers BY <1>1
<1>9. ASSUME NEW k \in Conn, OpenFails(k) \/ Closes(k)
      PROVE  \/ timers' \in 0..timers
             \/ \E l \in Conn : /\ readyState[l] = "open" /\ status \in {"recording", "paused"}
                                /\ readyState'[l] = "closed" /\ opened' = opened
             \/ \E l \in Conn : /\ l # 1 /\ readyState[l] # "none" /\ opened' = opened
                                /\ OpenFails(l)
  BY <1>4, <1>5, <1>8, <1>9
<1>10. CASE timers' = timers BY <1>8, <1>10
<1>. QED BY <1>2, <1>3, <1>6, <1>7, <1>9, <1>10 DEF Next

(* What is under way to the server.                                        *)
Takes(k) ==
    /\ up[k] # <<>> /\ handler[k] = "reading" /\ up'[k] = Tail(up[k])
    /\ \/ ServeStart(k) \/ Accept(k) \/ AcceptRaises(k) \/ AcceptDuplicate(k)
       \/ Refuse(k) \/ Control(k) \/ ServeEnd(k) \/ EndRaises(k)
Adds(j, msgs) == j = socket /\ ~cut[j] /\ up'[j] = Join(up[j], msgs)

LEMMA OpensUp ==
  ASSUME TypeInv, NEW k \in Conn, Opens(k), NEW j \in Conn
  PROVE  up'[j] = up[j] \/ (readyState'[j] = "open" /\ Adds(j, FirstMessages(k)))
<1>1. socket \in 0..Connections /\ DOMAIN up = Conn
  BY TypeParts DEF Queues, BrowserType
<1>2. \/ up' = up
      \/ /\ readyState'[socket] = "open" /\ ~cut[socket]
         /\ up' = [up EXCEPT ![socket] = Join(up[socket], FirstMessages(k))]
  BY DEF Opens, Join
<1>. QED BY <1>1, <1>2 DEF Adds

LEMMA UpChanges ==
  ASSUME TypeInv, [Next]_vars, NEW j \in Conn
  PROVE  \/ up'[j] = up[j]
         \/ Takes(j)
         \/ Disconnected(j) /\ up'[j] = <<>>
         \/ Capture /\ readyState[j] = "open" /\ Adds(j, <<Message("frame", sequence)>>)
         \/ (ClickPause \/ ClickResume) /\ readyState[j] = "open"
            /\ \E t \in {"pause_session", "resume_session"} : Adds(j, <<Message(t, -1)>>)
         \/ End /\ readyState[j] = "open" /\ Adds(j, <<Message("end_session", -1)>>)
         \/ \E k \in Conn : /\ Opens(k) /\ readyState'[j] = "open"
                            /\ Adds(j, FirstMessages(k))
<1>1. DOMAIN up = Conn BY TypeParts DEF Queues
<1>2. ASSUME NEW msgs, Send(msgs)
      PROVE  up'[j] = up[j] \/ (readyState[j] = "open" /\ Adds(j, msgs))
  BY <1>2, SendUp DEF Adds
<1>3. CASE Capture BY <1>2, <1>3 DEF Capture
<1>4. CASE ClickPause \/ ClickResume
  <2>1. PICK t \in {"pause_session", "resume_session"} : Send(<<Message(t, -1)>>)
    BY <1>4 DEF ClickPause, ClickResume
  <2>. QED BY <1>2, <1>4, <2>1
<1>5. CASE End BY <1>2, <1>5 DEF End
<1>6. CASE Start \/ StartTimeout \/ Leave \/ Unmount \/ Reconnect \/ UNCHANGED vars
  BY <1>6 DEF Start, StartTimeout, Leave, Unmount, Reconnect, network, vars
<1>7. ASSUME NEW k \in Conn, Opens(k)
      PROVE  \/ up'[j] = up[j]
             \/ Opens(k) /\ readyState'[j] = "open" /\ Adds(j, FirstMessages(k))
  BY <1>7, OpensUp
<1>8. ASSUME NEW k \in Conn,
             \/ OpenFails(k) \/ Closes(k) \/ Receive(k) \/ Drop(k) \/ OpenSession(k)
             \/ CreateAnalysis(k) \/ OpenSessionFails(k) \/ AnalysisFails(k)
      PROVE  up'[j] = up[j]
  BY <1>8 DEF OpenFails, Closes, Receive, Drop, SessionStarted, AudioAck,
     SessionPausedOrResumed, SessionEnded, ErrorEvent, OpenSession, CreateAnalysis,
     OpenSessionFails, AnalysisFails
<1>9. ASSUME NEW k \in Conn, Disconnected(k)
      PROVE  up'[j] = up[j] \/ (Disconnected(j) /\ up'[j] = <<>>)
  <2>1. up' = [up EXCEPT ![k] = <<>>] BY <1>9 DEF Disconnected
  <2>2. CASE j = k BY <1>1, <1>9, <2>1, <2>2
  <2>3. CASE j # k BY <1>1, <2>1, <2>3
  <2>. QED BY <2>2, <2>3
<1>10. ASSUME NEW k \in Conn,
              \/ ServeStart(k) \/ Accept(k) \/ AcceptRaises(k) \/ AcceptDuplicate(k)
              \/ Refuse(k) \/ Control(k) \/ ServeEnd(k) \/ EndRaises(k)
       PROVE  up'[j] = up[j] \/ Takes(j)
  <2>1. up[k] # <<>> /\ handler[k] = "reading" /\ Take(k) BY <1>10, TheseTake
  <2>2. up'[k] = Tail(up[k]) /\ (j # k => up'[j] = up[j]) BY <2>1, TakeUp
  <2>3. Takes(k) BY <1>10, <2>1, <2>2 DEF Takes
  <2>. QED BY <2>2, <2>3
<1>. QED BY <1>3, <1>4, <1>5, <1>6, <1>7, <1>8, <1>9, <1>10 DEF Next, Serve

(* The kinds of messages that this brings.                                 *)
LEMMA TypesOfFirst ==
  ASSUME TypeInv, NEW k \in Conn
  PROVE  /\ k = 1 => Types(FirstMessages(k)) = {"start_session"}
                     /\ Later(FirstMessages(k)) = {}
         /\ k # 1 => Types(FirstMessages(k)) \subseteq {"resume_session_connection", "frame"}
<1>1. /\ k = 1 => FirstMessages(k) = <<Message("start_session", -1)>>
      /\ k # 1 => FirstMessages(k) =
                     Join(<<Message("resume_session_connection", -1)>>, FrameMessages)
      /\ FrameMessages \in Seq(UpItems) /\ Len(FrameMessages) = Len(Resend)
      /\ \A i \in 1..Len(Resend) : FrameMessages[i].type = "frame"
  BY FirstMessagesItems
<1>2. Types(FrameMessages) \subseteq {"frame"} BY <1>1 DEF Types
<1>3. \A t : <<Message(t, -1)>> \in Seq({Message(t, -1)}) /\ Types(<<Message(t, -1)>>) = {t}
             /\ Tail(<<Message(t, -1)>>) = <<>> /\ <<Message(t, -1)>> # <<>>
  BY DEF Types, Message
<1>4. ASSUME k # 1
      PROVE  Types(FirstMessages(k)) \subseteq {"resume_session_connection", "frame"}
  <2> DEFINE r == <<Message("resume_session_connection", -1)>>
  <2>1. Types(r) = {"resume_session_connection"} BY <1>3
  <2>2. r \in Seq(Messages) /\ FrameMessages \in Seq(Messages)
    <3>1. Message("resume_session_connection", -1) \in Messages BY MessageItems DEF Kinds
    <3>2. UpItems \subseteq Messages BY DEF UpItems
    <3>. QED BY <1>1, <3>1, <3>2, SeqGrows
  <2> HIDE DEF r
  <2>3. Types(Join(r, FrameMessages)) = Types(r) \cup Types(FrameMessages)
    BY <2>2, TypesJoin
  <2>. QED BY <1>1, <1>2, <1>4, <2>1, <2>3 DEF r
<1>5. ASSUME k = 1
      PROVE  Types(FirstMessages(k)) = {"start_session"} /\ Later(FirstMessages(k)) = {}
  BY <1>1, <1>3, <1>5, TypesEmpty DEF Later
<1>. QED BY <1>4, <1>5

LEMMA TypesUp ==
  ASSUME TypeInv, [Next]_vars, NEW j \in Conn
  PROVE  \/ Fewer(up'[j], up[j])
         \/ /\ j = socket /\ readyState[j] = "open" /\ ~cut[j]
            /\ \/ Capture /\ More(up'[j], up[j], {"frame"})
               \/ /\ ClickPause \/ ClickResume
                  /\ More(up'[j], up[j], {"pause_session", "resume_session"})
               \/ End /\ More(up'[j], up[j], {"end_session"})
         \/ j = socket /\ Opens(1) /\ More(up'[j], up[j], {"start_session"})
            /\ up'[j] = Join(up[j], FirstMessages(1))
         \/ j = socket /\ \E k \in Conn : k # 1 /\ Opens(k)
            /\ More(up'[j], up[j], {"resume_session_connection", "frame"})
<1>1. up[j] \in Seq(UpItems) /\ up[j] \in Seq(Messages)
  <2>1. up[j] \in Seq(UpItems) BY TypeParts DEF Queues
  <2>. QED BY <2>1, SeqGrows DEF UpItems
<1>2. ASSUME NEW msgs \in Seq(Messages), Adds(j, msgs)
      PROVE  More(up'[j], up[j], Types(msgs)) /\ j = socket /\ ~cut[j]
  BY <1>1, <1>2, TypesJoin DEF Adds, More
<1>3. ASSUME NEW t \in Kinds, NEW n \in Nat \cup {-1}, Adds(j, <<Message(t, n)>>)
      PROVE  More(up'[j], up[j], {t}) /\ j = socket /\ ~cut[j]
  <2>1. Message(t, n) \in Messages /\ Message(t, n).type = t BY MessageItems
  <2>2. <<Message(t, n)>> \in Seq(Messages) /\ Types(<<Message(t, n)>>) = {t}
    BY <2>1 DEF Types
  <2>. QED BY <1>2, <1>3, <2>2
<1>4. sequence \in Nat \cup {-1} /\ -1 \in Nat \cup {-1} BY TypeParts DEF BrowserType
<1>5. CASE up'[j] = up[j] BY <1>5, SameIsFewer
<1>6. CASE Takes(j) BY <1>1, <1>6, TypesTail DEF Takes, Fewer
<1>7. CASE up'[j] = <<>> BY <1>7, TypesEmpty DEF Fewer
<1>8. CASE Capture /\ readyState[j] = "open" /\ Adds(j, <<Message("frame", sequence)>>)
  BY <1>3, <1>4, <1>8 DEF Kinds
<1>9. CASE (ClickPause \/ ClickResume) /\ readyState[j] = "open"
           /\ \E t \in {"pause_session", "resume_session"} : Adds(j, <<Message(t, -1)>>)
  <2>1. PICK t \in {"pause_session", "resume_session"} : Adds(j, <<Message(t, -1)>>)
    BY <1>9
  <2>2. t \in Kinds BY DEF Kinds
  <2>3. More(up'[j], up[j], {t}) /\ j = socket /\ ~cut[j] BY <1>3, <1>4, <2>1, <2>2
  <2>. QED BY <1>9, <2>3 DEF More
<1>10. CASE End /\ readyState[j] = "open" /\ Adds(j, <<Message("end_session", -1)>>)
  BY <1>3, <1>4, <1>10 DEF Kinds
<1>11. ASSUME NEW k \in Conn, Opens(k), Adds(j, FirstMessages(k))
       PROVE  \/ j = socket /\ Opens(1) /\ More(up'[j], up[j], {"start_session"})
                 /\ up'[j] = Join(up[j], FirstMessages(1))
              \/ j = socket /\ \E l \in Conn : l # 1 /\ Opens(l)
                 /\ More(up'[j], up[j], {"resume_session_connection", "frame"})
  <2>1. FirstMessages(k) \in Seq(Messages)
    <3>1. FirstMessages(k) \in Seq(UpItems) BY FirstMessagesItems
    <3>. QED BY <3>1, SeqGrows DEF UpItems
  <2>2. More(up'[j], up[j], Types(FirstMessages(k))) /\ j = socket BY <1>2, <1>11, <2>1
  <2>3. up'[j] = Join(up[j], FirstMessages(k)) BY <1>11 DEF Adds
  <2>4. CASE k = 1 BY <1>11, <2>2, <2>3, <2>4, TypesOfFirst
  <2>5. CASE k # 1
    <3>1. Types(FirstMessages(k)) \subseteq {"resume_session_connection", "frame"}
      BY <2>5, TypesOfFirst
    <3>. QED BY <1>11, <2>2, <2>5, <3>1 DEF More
  <2>. QED BY <2>4, <2>5
<1>. QED BY <1>5, <1>6, <1>7, <1>8, <1>9, <1>10, <1>11, UpChanges

(* What is under way to the page: an answer, and what it answers.          *)
Answers(j, t) ==
    /\ ~cut[j] /\ More(down'[j], down[j], {t})
    /\ down[j] = <<>> => Later(down'[j]) = {}
    /\ \/ /\ t = "session_started"
          /\ \/ OpenSession(j)
             \/ ServeStart(j) /\ session = "open"
             \/ session # "none" /\ Serving(j, "resume_session_connection")
       \/ t = "audio_ack" /\ session = "open"
       \/ t = "session_paused" /\ session # "none" /\ Serving(j, "pause_session")
       \/ t = "session_resumed" /\ session # "none" /\ Serving(j, "resume_session")
       \/ t = "session_ended" /\ handler[j] = "ending" /\ CreateAnalysis(j)
       \/ t = "error" /\ Refuse(j)

LEMMA TypesDown ==
  ASSUME TypeInv, [Next]_vars, NEW j \in Conn
  PROVE  Fewer(down'[j], down[j]) \/ \E t \in Kinds : Answers(j, t)
<1>1. ASSUME DownFewer PROVE Fewer(down'[j], down[j]) BY <1>1 DEF DownFewer
<1>2. CASE \/ Start \/ StartTimeout \/ Capture \/ ClickPause \/ ClickResume \/ End
           \/ Leave \/ Unmount \/ Reconnect \/ UNCHANGED vars
  BY <1>1, <1>2, DownFewerBrowser
<1>3. ASSUME NEW k \in Conn,
             \/ Opens(k) \/ OpenFails(k) \/ Closes(k) \/ Receive(k) \/ Drop(k)
             \/ ServeEnd(k) \/ Disconnected(k) \/ OpenSessionFails(k) \/ AcceptRaises(k)
             \/ EndRaises(k) \/ AnalysisFails(k)
      PROVE  Fewer(down'[j], down[j])
  BY <1>1, <1>3, DownFewerSteps
<1>4. ASSUME NEW k \in Conn, UNCHANGED down PROVE Fewer(down'[j], down[j])
  BY <1>1, <1>4, DownSame
<1>5. ASSUME NEW k \in Conn, NEW t \in Kinds, NEW n \in Nat \cup {-1}, Reply(k, t, n)
      PROVE  \/ Fewer(down'[j], down[j])
             \/ /\ j = k /\ ~cut[k] /\ More(down'[j], down[j], {t})
                /\ down[j] = <<>> => Later(down'[j]) = {}
  BY <1>5, ReplyMore DEF DownMore
<1>6. /\ "session_started" \in Kinds /\ "audio_ack" \in Kinds /\ "error" \in Kinds
      /\ "session_paused" \in Kinds /\ "session_resumed" \in Kinds
      /\ "session_ended" \in Kinds
      /\ -1 \in Nat \cup {-1} /\ lastSequence \in Nat \cup {-1}
  BY TypeParts DEF Kinds, BrowserType
<1>7. ASSUME NEW k \in Conn, ServeStart(k)
      PROVE  Fewer(down'[j], down[j]) \/ Answers(j, "session_started")
  <2>1. CASE session = "open"
    <3>1. Reply(k, "session_started", lastSequence) BY <1>7, <2>1 DEF ServeStart
    <3>. QED BY <1>5, <1>6, <1>7, <2>1, <3>1 DEF Answers
  <2>2. CASE session # "open"
    <3>1. UNCHANGED down BY <1>7, <2>2 DEF ServeStart
    <3>. QED BY <1>4, <3>1
  <2>. QED BY <2>1, <2>2
<1>8. ASSUME NEW k \in Conn, OpenSession(k)
      PROVE  Fewer(down'[j], down[j]) \/ Answers(j, "session_started")
  <2>1. Reply(k, "session_started", -1) BY <1>8 DEF OpenSession
  <2>. QED BY <1>5, <1>6, <1>8, <2>1 DEF Answers
<1>9. ASSUME NEW k \in Conn, Accept(k) \/ AcceptDuplicate(k)
      PROVE  Fewer(down'[j], down[j]) \/ Answers(j, "audio_ack")
  <2>1. session = "open" BY <1>9 DEF Accept, AcceptDuplicate, Accepting
  <2>2. CASE Accept(k)
    <3>1. lastSequence' \in Nat \cup {-1} BY <2>2, BrowserStep DEF BrowserType, Next, Serve
    <3>2. Reply(k, "audio_ack", lastSequence') BY <2>2 DEF Accept
    <3>. QED BY <1>5, <1>6, <2>1, <3>1, <3>2 DEF Answers
  <2>3. CASE AcceptDuplicate(k)
    <3>1. Reply(k, "audio_ack", lastSequence) BY <2>3 DEF AcceptDuplicate
    <3>. QED BY <1>5, <1>6, <2>1, <3>1 DEF Answers
  <2>. QED BY <1>9, <2>2, <2>3
<1>10. ASSUME NEW k \in Conn, Refuse(k)
       PROVE  Fewer(down'[j], down[j]) \/ Answers(j, "error")
  <2>1. Reply(k, "error", -1) BY <1>10 DEF Refuse
  <2>. QED BY <1>5, <1>6, <1>10, <2>1 DEF Answers
<1>11. ASSUME NEW k \in Conn, Control(k)
       PROVE  Fewer(down'[j], down[j]) \/ \E t \in Kinds : Answers(j, t)
  <2>1. session # "none" BY <1>11 DEF Control
  <2>2. CASE Serving(k, "pause_session") /\ Reply(k, "session_paused", -1)
    <3>1. Fewer(down'[j], down[j]) \/ Answers(j, "session_paused")
      BY <1>5, <1>6, <2>1, <2>2 DEF Answers
    <3>. QED BY <1>6, <3>1
  <2>3. CASE Serving(k, "resume_session") /\ Reply(k, "session_resumed", lastSequence)
    <3>1. Fewer(down'[j], down[j]) \/ Answers(j, "session_resumed")
      BY <1>5, <1>6, <2>1, <2>3 DEF Answers
    <3>. QED BY <1>6, <3>1
  <2>4. CASE /\ Serving(k, "resume_session_connection")
             /\ Reply(k, "session_started", lastSequence)
    <3>1. Fewer(down'[j], down[j]) \/ Answers(j, "session_started")
      BY <1>5, <1>6, <2>1, <2>4 DEF Answers
    <3>. QED BY <1>6, <3>1
  <2>. QED BY <1>11, <2>2, <2>3, <2>4 DEF Control
<1>12. ASSUME NEW k \in Conn, CreateAnalysis(k)
       PROVE  Fewer(down'[j], down[j]) \/ Answers(j, "session_ended")
  <2>1. CASE handler[k] = "ending"
    <3>1. Reply(k, "session_ended", -1) BY <1>12, <2>1 DEF CreateAnalysis
    <3>. QED BY <1>5, <1>6, <1>12, <2>1, <3>1 DEF Answers
  <2>2. CASE handler[k] # "ending"
    <3>1. UNCHANGED down BY <1>12, <2>2 DEF CreateAnalysis
    <3>. QED BY <1>4, <3>1
  <2>. QED BY <2>1, <2>2
<1>. QED BY <1>2, <1>3, <1>6, <1>7, <1>8, <1>9, <1>10, <1>11, <1>12 DEF Next, Serve

(* What only grows, and what only some actions change.                     *)
LEMMA ClicksGrow ==
  ASSUME TypeInv, [Next]_vars
  PROVE  clicks' = clicks \/ ((ClickPause \/ ClickResume) /\ clicks' # 0)
<1>1. clicks \in Nat BY TypeParts DEF ServerType
<1>2. CASE ClickPause \/ ClickResume BY <1>1, <1>2 DEF ClickPause, ClickResume
<1>3. CASE \/ Start \/ StartTimeout \/ Capture \/ End \/ Leave \/ Unmount \/ Reconnect
           \/ UNCHANGED vars
  BY <1>3 DEF Start, StartTimeout, Capture, End, Leave, Unmount, Reconnect, bounds, vars
<1>4. ASSUME NEW k \in Conn, Opens(k) \/ OpenFails(k) \/ Closes(k) \/ Receive(k) \/ Drop(k)
      PROVE  clicks' = clicks
  BY <1>4 DEF Opens, OpenFails, Closes, Receive, Drop, SessionStarted, AudioAck,
     SessionPausedOrResumed, SessionEnded, ErrorEvent, bounds
<1>5. ASSUME NEW k \in Conn, Serve(k) \/ OpenSessionFails(k) \/ AcceptRaises(k)
                             \/ EndRaises(k) \/ AnalysisFails(k)
      PROVE  clicks' = clicks
  BY <1>5 DEF Serve, ServeStart, OpenSession, Accept, AcceptDuplicate, Refuse, Control,
     ServeEnd, CreateAnalysis, Disconnected, OpenSessionFails, AcceptRaises, EndRaises,
     AnalysisFails, bounds
<1>. QED BY <1>2, <1>3, <1>4, <1>5 DEF Next

LEMMA CapturingChanges ==
  ASSUME TypeInv, [Next]_vars
  PROVE  capturing' = capturing \/ capturing' = FALSE \/ Start
<1>1. CASE StartTimeout \/ End \/ Leave \/ Unmount
  BY <1>1 DEF StartTimeout, Fail, Shows, End, Leave, Unmount
<1>2. CASE Capture \/ ClickPause \/ ClickResume \/ Reconnect \/ UNCHANGED vars
  BY <1>2 DEF Capture, ClickPause, ClickResume, Reconnect, browser, vars
<1>3. ASSUME NEW k \in Conn, Opens(k) \/ OpenFails(k) \/ Closes(k) \/ Receive(k) \/ Drop(k)
      PROVE  capturing' = capturing \/ capturing' = FALSE
  BY <1>3 DEF Opens, OpenFails, Closes, Receive, Drop, SessionStarted, AudioAck,
     SessionPausedOrResumed, SessionEnded, ErrorEvent, Fail, Shows, ScheduleReconnect, browser
<1>4. ASSUME NEW k \in Conn, Serve(k) \/ OpenSessionFails(k) \/ AcceptRaises(k)
                             \/ EndRaises(k) \/ AnalysisFails(k)
      PROVE  capturing' = capturing
  BY <1>4 DEF Serve, ServeStart, OpenSession, Accept, AcceptDuplicate, Refuse, Control,
     ServeEnd, CreateAnalysis, Disconnected, OpenSessionFails, AcceptRaises, EndRaises,
     AnalysisFails, browser
<1>. QED BY <1>1, <1>2, <1>3, <1>4 DEF Next

LEMMA JobsChange ==
  ASSUME TypeInv, [Next]_vars
  PROVE  jobs' = jobs \/ (jobs' > 0 /\ \E k \in Conn : CreateAnalysis(k))
<1>1. jobs \in Nat BY TypeParts DEF ServerType
<1>2. CASE \/ Start \/ StartTimeout \/ Capture \/ ClickPause \/ ClickResume \/ End
           \/ Leave \/ Unmount \/ Reconnect \/ UNCHANGED vars
  BY <1>2 DEF Start, StartTimeout, Capture, ClickPause, ClickResume, End, Leave, Unmount, Reconnect,
     server, vars
<1>3. ASSUME NEW k \in Conn, Opens(k) \/ OpenFails(k) \/ Closes(k) \/ Receive(k) \/ Drop(k)
      PROVE  jobs' = jobs
  BY <1>3 DEF Opens, OpenFails, Closes, Receive, Drop, SessionStarted, AudioAck,
     SessionPausedOrResumed, SessionEnded, ErrorEvent, server
<1>4. ASSUME NEW k \in Conn,
             \/ ServeStart(k) \/ OpenSession(k) \/ Accept(k) \/ AcceptDuplicate(k)
             \/ Refuse(k) \/ Control(k) \/ ServeEnd(k) \/ Disconnected(k)
             \/ OpenSessionFails(k) \/ AcceptRaises(k) \/ EndRaises(k) \/ AnalysisFails(k)
      PROVE  jobs' = jobs
  BY <1>4 DEF ServeStart, OpenSession, Accept, AcceptDuplicate, Refuse, Control, ServeEnd,
     Disconnected, OpenSessionFails, AcceptRaises, EndRaises, AnalysisFails
<1>5. ASSUME NEW k \in Conn, CreateAnalysis(k) PROVE jobs' > 0
  BY <1>1, <1>5 DEF CreateAnalysis
<1>. QED BY <1>2, <1>3, <1>4, <1>5 DEF Next, Serve

LEMMA PausedChanges ==
  ASSUME [Next]_vars
  PROVE  \/ paused' = paused \/ paused' = FALSE
         \/ \E k \in Conn : Serving(k, "pause_session") /\ Control(k)
<1>1. CASE \/ Start \/ StartTimeout \/ Capture \/ ClickPause \/ ClickResume \/ End
           \/ Leave \/ Unmount \/ Reconnect \/ UNCHANGED vars
  BY <1>1 DEF Start, StartTimeout, Capture, ClickPause, ClickResume, End, Leave, Unmount, Reconnect,
     server, vars
<1>2. ASSUME NEW k \in Conn, Opens(k) \/ OpenFails(k) \/ Closes(k) \/ Receive(k) \/ Drop(k)
      PROVE  paused' = paused
  BY <1>2 DEF Opens, OpenFails, Closes, Receive, Drop, SessionStarted, AudioAck,
     SessionPausedOrResumed, SessionEnded, ErrorEvent, server
<1>3. ASSUME NEW k \in Conn,
             \/ ServeStart(k) \/ OpenSession(k) \/ Accept(k) \/ AcceptDuplicate(k)
             \/ Refuse(k) \/ ServeEnd(k) \/ CreateAnalysis(k) \/ Disconnected(k)
             \/ OpenSessionFails(k) \/ AcceptRaises(k) \/ EndRaises(k) \/ AnalysisFails(k)
      PROVE  paused' = paused
  BY <1>3 DEF ServeStart, OpenSession, Accept, AcceptDuplicate, Refuse, ServeEnd,
     CreateAnalysis, Disconnected, OpenSessionFails, AcceptRaises, EndRaises, AnalysisFails
<1>4. ASSUME NEW k \in Conn, Control(k)
      PROVE  paused' = paused \/ paused' = FALSE \/ (Serving(k, "pause_session") /\ Control(k))
  BY <1>4 DEF Control
<1>. QED BY <1>1, <1>2, <1>3, <1>4 DEF Next, Serve

-----------------------------------------------------------------------------
(* The steps of the life of a session.                                     *)

LEMMA Numbers ==
  ASSUME TypeInv
  PROVE  /\ 1 \in Conn /\ opened \in Nat /\ timers \in Nat /\ clicks \in Nat
         /\ sequence \in Nat /\ lastSequence \in Nat \cup {-1} /\ socket = opened
         /\ \A k \in Conn : k \in Nat /\ k >= 1
BY TypeParts DEF BrowserType, ServerType, Conn

(* A connection there is, and its place among them.                        *)
LEMMA Used ==
  ASSUME TypeInv, EndsInv, NEW k \in Conn,
         \/ readyState[k] # "none" \/ handler[k] # "none"
         \/ up[k] # <<>> \/ down[k] # <<>>
  PROVE  k <= opened
BY Numbers DEF EndsInv

(* start_session is served by the first connection, and once.              *)
LEMMA FirstServes ==
  ASSUME TypeInv, StartInv, NEW k \in Conn, ServeStart(k) \/ OpenSession(k)
  PROVE  k = 1 /\ session = "none" /\ UNCHANGED readyState
<1>1. CASE ServeStart(k)
  <2>1. "start_session" \in Types(up[k]) BY <1>1, HeadType DEF ServeStart, Serving
  <2>. QED BY <1>1, <2>1 DEF StartInv, ServeStart, browser
<1>2. CASE OpenSession(k) BY <1>2 DEF StartInv, OpenSession, browser
<1>. QED BY <1>1, <1>2

(* A session that has been started stays so, and one that is over too.     *)
LEMMA SessionGoesOn ==
  ASSUME TypeInv, StartInv, [Next]_vars
  PROVE  /\ session # "none" => session' # "none"
         /\ session = "closed" => session' = "closed"
         /\ session = "none" /\ session' # "none" =>
               OpenSession(1) /\ session' = "open" /\ handler[1] = "starting"
<1>1. CASE session' = session BY <1>1
<1>2. ASSUME NEW k \in Conn, OpenSession(k)
      PROVE  k = 1 /\ session = "none" /\ session' = "open" /\ handler[k] = "starting"
  BY <1>2, FirstServes DEF OpenSession
<1>3. ASSUME NEW k \in Conn, ServeEnd(k) PROVE session # "none" /\ session' = "closed"
  BY <1>3 DEF ServeEnd
<1>. QED BY <1>1, <1>2, <1>3, SessionChanges

(* The first connection opens as the only one, and others as later ones.   *)
LEMMA FirstOpens ==
  ASSUME TypeInv, EndsInv, FirstInv, StartInv, NEW k \in Conn, Opens(k)
  PROVE  /\ k = 1 => /\ opened = 1 /\ session = "none" /\ up[1] = <<>>
         /\ k # 1 => opened >= 2
<1>1. readyState[k] = "connecting" BY DEF Opens
<1>2. k <= opened BY <1>1, Used
<1>. QED BY <1>1, <1>2, Numbers DEF FirstInv, EndsInv, StartInv

LEMMA StartStep ==
  ASSUME TypeInv, EndsInv, StartInv, FirstInv, ClosedInv, [Next]_vars
  PROVE  StartInv'
<1>0. 1 \in Conn BY Numbers
<1>1. readyState'[1] \in {"none", "connecting", "closing"} => session' = "none"
  <2>1. SUFFICES ASSUME readyState'[1] \in {"none", "connecting", "closing"} PROVE session' = "none"
    OBVIOUS
  <2>2. readyState[1] \in {"none", "connecting", "closing"} BY <1>0, <2>1, ReadyChanges
  <2>3. session = "none" /\ handler[1] = "none" BY <1>0, <2>2 DEF StartInv, EndsInv
  <2>. QED BY <2>3, SessionGoesOn
<1>2. ASSUME NEW k \in Conn
      PROVE  /\ "start_session" \in Types(up'[k]) =>
                   k = 1 /\ session' = "none" /\ handler'[1] # "starting"
             /\ "start_session" \notin Later(up'[k])
  <2>1. CASE "start_session" \in Types(up[k]) /\ Fewer(up'[k], up[k])
    <3>1. k = 1 /\ session = "none" /\ handler[1] # "starting"
          /\ "start_session" \notin Later(up[1])
      BY <2>1 DEF StartInv
    <3>2. "start_session" \notin Later(up'[k]) BY <2>1, <3>1 DEF Fewer
    <3>3. session' = "none" BY <3>1, SessionGoesOn
    <3>4. ASSUME handler'[1] = "starting" PROVE "start_session" \notin Types(up'[k])
      <4>1. ServeStart(1) BY <1>0, <3>1, <3>4, HandlerChanges
      <4>2. up[1] # <<>> /\ Take(1) BY <1>0, <4>1, TheseTake
      <4>3. Types(up'[1]) = Later(up[1]) BY <1>0, <4>2, TakeFewer
      <4>. QED BY <3>1, <4>3
    <3>. QED BY <3>1, <3>2, <3>3, <3>4
  <2>2. CASE "start_session" \notin Types(up[k]) /\ Fewer(up'[k], up[k])
    BY <2>2 DEF Fewer, StartInv
  <2>3. ASSUME NEW T, "start_session" \notin T, More(up'[k], up[k], T), session' = session,
               handler'[1] = handler[1]
        PROVE  /\ "start_session" \in Types(up'[k]) =>
                     k = 1 /\ session' = "none" /\ handler'[1] # "starting"
               /\ "start_session" \notin Later(up'[k])
    <3>1. "start_session" \in Types(up'[k]) => "start_session" \in Types(up[k])
      BY <2>3 DEF More
    <3>2. "start_session" \notin Later(up'[k]) BY <2>3 DEF More, StartInv
    <3>. QED BY <2>3, <3>1, <3>2 DEF StartInv
  <2>4. CASE k = socket /\ Opens(1) /\ up'[k] = Join(up[k], FirstMessages(1))
    <3>1. opened = 1 /\ session = "none" /\ up[1] = <<>> BY <1>0, <2>4, FirstOpens
    <3>2. k = 1 BY <2>4, <3>1, Numbers
    <3>3. handler'[1] = "reading"
      BY <1>0, <2>4, TypeParts DEF Opens, ServerType
    <3>4. session' = session BY <2>4 DEF Opens
    <3>5. up'[k] = FirstMessages(1)
      <4>1. FirstMessages(1) \in Seq(UpItems) BY <1>0, FirstMessagesItems
      <4>. QED BY <2>4, <3>1, <3>2, <4>1 DEF Join
    <3>6. Later(FirstMessages(1)) = {} BY <1>0, TypesOfFirst
    <3>. QED BY <3>1, <3>2, <3>3, <3>4, <3>5, <3>6
  <2>5. CASE /\ Capture \/ ClickPause \/ ClickResume \/ End
             /\ \/ More(up'[k], up[k], {"frame"}) \/ More(up'[k], up[k], {"end_session"})
                \/ More(up'[k], up[k], {"pause_session", "resume_session"})
    <3>1. handler' = handler /\ session' = session
      BY <2>5 DEF Capture, ClickPause, ClickResume, End, server
    <3>. QED BY <2>3, <2>5, <3>1
  <2>6. ASSUME NEW l \in Conn, l # 1, Opens(l),
               More(up'[k], up[k], {"resume_session_connection", "frame"})
        PROVE  /\ "start_session" \in Types(up'[k]) =>
                     k = 1 /\ session' = "none" /\ handler'[1] # "starting"
               /\ "start_session" \notin Later(up'[k])
    <3>1. session' = session /\ handler'[1] = handler[1]
      BY <1>0, <2>6, TypeParts DEF Opens, ServerType
    <3>. QED BY <2>3, <2>6, <3>1
  <2>. QED BY <2>1, <2>2, <2>4, <2>5, <2>6, TypesUp
<1>3. ASSUME NEW k \in Conn, handler'[k] = "starting"
      PROVE  k = 1 /\ session' = "none"
  <2>1. CASE handler[k] = "starting"
    <3>1. k = 1 /\ session = "none" BY <2>1 DEF StartInv
    <3>2. ~OpenSession(1)
      <4>1. ASSUME OpenSession(1) PROVE handler'[1] = "reading"
        BY <1>0, <4>1, TypeParts DEF OpenSession, Goes, ServerType
      <4>. QED BY <1>3, <3>1, <4>1
    <3>. QED BY <3>1, <3>2, SessionGoesOn
  <2>2. CASE ServeStart(k)
    <3>1. k = 1 /\ session = "none" BY <2>2, FirstServes
    <3>. QED BY <2>2, <3>1 DEF ServeStart
  <2>. QED BY <1>3, <2>1, <2>2, HandlerChanges
<1>4. status' = "idle" => opened' = 0
  <2>1. SUFFICES ASSUME status' = "idle" PROVE opened' = 0 OBVIOUS
  <2>2. status = "idle" /\ opened = 0 BY <2>1, StatusChanges DEF StartInv
  <2>3. ~Start BY <2>1 DEF Start
  <2>4. readyState[1] = "none" BY <1>0, <2>2 DEF EndsInv
  <2>5. ~ timers > 0 BY <2>4 DEF FirstInv
  <2>. QED BY <2>2, <2>3, <2>5, OpenedChanges
<1>. QED BY <1>1, <1>2, <1>3, <1>4 DEF StartInv

LEMMA TypesNone ==
  ASSUME NEW S, NEW q \in Seq(S), Types(q) \subseteq {}
  PROVE  q = <<>>
<1>1. Len(q) \in Nat /\ \A i \in 1..Len(q) : q[i].type \in Types(q) BY DEF Types
<1>2. ~ Len(q) > 0 BY <1>1
<1>3. Len(q) = 0 BY <1>1, <1>2
<1>. QED BY <1>3

(* Before the session is there, nobody is refused and nobody is answered.  *)
LEMMA OnlyStartWaits ==
  ASSUME TypeInv, EndsInv, NoneInv, session = "none", NEW k \in Conn
  PROVE  /\ readyState[k] # "none" => k = 1
         /\ handler[k] # "none" => k = 1
         /\ \A t : Serving(k, t) => k = 1 /\ t = "start_session"
<1>1. opened <= 1 BY DEF NoneInv
<1>2. ASSUME readyState[k] # "none" \/ handler[k] # "none" PROVE k = 1
  <2>1. k <= opened BY <1>2, Used
  <2>. QED BY <1>1, <2>1, Numbers
<1>3. ASSUME NEW t, Serving(k, t) PROVE k = 1 /\ t = "start_session"
  BY <1>2, <1>3 DEF Serving, NoneInv
<1>. QED BY <1>2, <1>3

LEMMA NoneStep ==
  ASSUME TypeInv, EndsInv, StartInv, NoneInv, FirstInv, ClosedInv, [Next]_vars
  PROVE  NoneInv'
<1> SUFFICES ASSUME session' = "none"
             PROVE  /\ opened' <= 1 /\ timers' = 0 /\ recording' = <<>> /\ status' \notin Talking
                    /\ \A k \in Conn : down'[k] = <<>>
                    /\ handler'[1] = "reading" =>
                          up'[1] # <<>> /\ Head(up'[1]).type = "start_session"
  BY DEF NoneInv
<1>1. /\ session = "none" /\ opened <= 1 /\ timers = 0 /\ recording = <<>>
      /\ status \notin Talking /\ \A k \in Conn : down[k] = <<>>
      /\ handler[1] = "reading" => up[1] # <<>> /\ Head(up[1]).type = "start_session"
  BY SessionGoesOn DEF NoneInv
<1>2. opened' <= 1
  <2>1. CASE opened' = opened BY <1>1, <2>1
  <2>2. CASE status = "idle" /\ opened' = opened + 1 BY <2>2, Numbers DEF StartInv
  <2>3. CASE timers > 0 BY <1>1, <2>3
  <2>. QED BY <2>1, <2>2, <2>3, OpenedChanges
<1>3. timers' = 0
  <2>1. CASE timers' \in 0..timers BY <1>1, <2>1
  <2>2. CASE status \in {"recording", "paused"} BY <1>1, <2>2 DEF Talking
  <2>3. ASSUME NEW k \in Conn, k # 1, readyState[k] # "none" PROVE FALSE
    BY <1>1, <2>3, OnlyStartWaits
  <2>. QED BY <2>1, <2>2, <2>3, TimersChange
<1>4. recording' = <<>>
  <2>1. ASSUME NEW k \in Conn, Accept(k) \/ AcceptRaises(k) PROVE FALSE
    BY <1>1, <2>1, Accepted
  <2>. QED BY <1>1, <2>1, OnlyAcceptRecords
<1>5. status' \notin Talking
  BY <1>1, StatusChanges DEF Talking, Handles
<1>6. ASSUME NEW k \in Conn PROVE down'[k] = <<>>
  <2>1. ASSUME NEW t \in Kinds, Answers(k, t) PROVE FALSE
    <3>1. ~OpenSession(k)
      <4>1. ASSUME OpenSession(k) PROVE session' = "open" BY <4>1 DEF OpenSession
      <4>. QED BY <4>1
    <3>2. handler[k] # "ending" BY <1>1 DEF ClosedInv
    <3>3. ~Refuse(k)
      BY <1>1, OnlyStartWaits DEF Refuse, Refused, Accepting
    <3>. QED BY <1>1, <2>1, <3>1, <3>2, <3>3 DEF Answers
  <2>2. Types(down'[k]) \subseteq Types(down[k]) BY <2>1, TypesDown DEF Fewer
  <2>3. down'[k] \in Seq(DownItems') BY DownStep DEF DownType
  <2>. QED BY <1>1, <2>2, <2>3, TypesEmpty, TypesNone
<1>7. ASSUME handler'[1] = "reading"
      PROVE  up'[1] # <<>> /\ Head(up'[1]).type = "start_session"
  <2>0. 1 \in Conn BY Numbers
  <2>1. CASE handler[1] = "reading"
    <3>1. up[1] # <<>> /\ Head(up[1]).type = "start_session" /\ up[1] \in Seq(UpItems)
      BY <1>1, <2>0, <2>1, TypeParts DEF Queues
    <3>2. CASE up'[1] = up[1] BY <3>1, <3>2
    <3>3. CASE Takes(1)
      <4>1. ServeStart(1)
        BY <1>1, <2>0, <3>1, <3>3, OnlyStartWaits DEF Takes, Accept, AcceptRaises,
           AcceptDuplicate, Refuse, Refused, Control, ServeEnd, EndRaises, Accepting, Serving
      <4>2. handler'[1] = "starting"
        BY <1>1, <2>0, <4>1, TypeParts DEF ServeStart, Goes, ServerType
      <4>. QED BY <1>7, <4>2
    <3>4. CASE Disconnected(1)
      <4>1. handler'[1] = "done"
        BY <2>0, <3>4, TypeParts DEF Disconnected, Goes, ServerType
      <4>. QED BY <1>7, <4>1
    <3>5. ASSUME NEW msgs \in Seq(Messages), Adds(1, msgs)
          PROVE  up'[1] # <<>> /\ Head(up'[1]).type = "start_session"
      <4>1. up[1] \in Seq(Messages) BY <3>1, SeqGrows DEF UpItems
      <4>2. up'[1] = Join(up[1], msgs) BY <3>5 DEF Adds
      <4>3. up'[1] # <<>> /\ Head(up'[1]) = Head(up[1]) BY <3>1, <4>1, <4>2, JoinHead
      <4>. QED BY <3>1, <4>3
    <3>6. \A t \in Kinds, n \in Nat \cup {-1} : <<Message(t, n)>> \in Seq(Messages)
      BY MessageItems
    <3>7. \A k \in Conn : FirstMessages(k) \in Seq(Messages)
      <4>1. \A k \in Conn : FirstMessages(k) \in Seq(UpItems) BY FirstMessagesItems
      <4>. QED BY <4>1, SeqGrows DEF UpItems
    <3>8. CASE Capture /\ Adds(1, <<Message("frame", sequence)>>)
      <4>1. "frame" \in Kinds /\ sequence \in Nat \cup {-1} BY Numbers DEF Kinds
      <4>. QED BY <3>5, <3>6, <3>8, <4>1
    <3>9. CASE \E t \in {"pause_session", "resume_session", "end_session"} :
                  Adds(1, <<Message(t, -1)>>)
      <4>1. {"pause_session", "resume_session", "end_session"} \subseteq Kinds BY DEF Kinds
      <4>2. -1 \in Nat \cup {-1} OBVIOUS
      <4>. QED BY <3>5, <3>6, <3>9, <4>1, <4>2
    <3>10. CASE \E k \in Conn : Adds(1, FirstMessages(k)) BY <3>5, <3>7, <3>10
    <3>. QED BY <2>0, <3>2, <3>3, <3>4, <3>8, <3>9, <3>10, UpChanges
  <2>2. CASE Opens(1)
    <3>1. opened = 1 /\ up[1] = <<>> BY <2>0, <2>2, FirstOpens
    <3>2. ~cut[1] /\ readyState'[1] = "open" /\ DOMAIN up = Conn
      BY <2>0, <2>2, TypeParts DEF EndsInv, Opens, ServerType, Queues
    <3>3. up'[1] = up[1] \o FirstMessages(1)
      BY <2>0, <2>2, <3>1, <3>2, Numbers DEF Opens
    <3>4. FirstMessages(1) = <<Message("start_session", -1)>> BY <2>0, FirstMessagesItems
    <3>5. up'[1] = <<Message("start_session", -1)>>
      <4>1. FirstMessages(1) \in Seq(UpItems) BY <2>0, FirstMessagesItems
      <4>. QED BY <3>1, <3>3, <3>4, <4>1
    <3>. QED BY <3>5 DEF Message
  <2>3. ~OpenSession(1)
    <3>1. ASSUME OpenSession(1) PROVE session' = "open" BY <3>1 DEF OpenSession
    <3>. QED BY <3>1
  <2>4. handler[1] \notin {"ending", "endingAgain"} BY <1>1, <2>0 DEF ClosedInv
  <2>5. ~CreateAnalysis(1) BY <2>4 DEF CreateAnalysis
  <2>. QED BY <1>7, <2>0, <2>1, <2>2, <2>3, <2>5, HandlerChanges
<1>. QED BY <1>2, <1>3, <1>4, <1>5, <1>6, <1>7

LEMMA FirstStep ==
  ASSUME TypeInv, EndsInv, StartInv, FirstInv, [Next]_vars
  PROVE  FirstInv'
<1> SUFFICES ASSUME opened' >= 2 \/ timers' > 0 PROVE readyState'[1] = "closed"
  BY DEF FirstInv
<1>0. 1 \in Conn BY Numbers
<1>1. CASE opened >= 2 \/ timers > 0
  <2>1. readyState[1] = "closed" BY <1>1 DEF FirstInv
  <2>2. ~Opens(1) BY <2>1 DEF Opens
  <2>. QED BY <1>0, <2>1, <2>2, ReadyChanges
<1>2. CASE ~ (opened >= 2 \/ timers > 0)
  <2>1. opened <= 1 /\ timers = 0 BY <1>2, Numbers
  <2>2. \A k \in Conn : readyState[k] # "none" => k = 1
    BY <2>1, Used, Numbers
  <2>3. ~ opened' >= 2
    <3>1. CASE opened' = opened BY <2>1, <3>1, Numbers
    <3>2. CASE status = "idle" /\ opened' = opened + 1 BY <3>2, Numbers DEF StartInv
    <3>. QED BY <2>1, <3>1, <3>2, OpenedChanges
  <2>4. ~ timers' \in 0..timers BY <2>1, <2>3
  <2>5. PICK k \in Conn : \/ readyState[k] = "open" /\ readyState'[k] = "closed"
                          \/ k # 1 /\ readyState[k] # "none"
    BY <2>4, TimersChange
  <2>. QED BY <2>2, <2>5
<1>. QED BY <1>1, <1>2

(* As long as the first connection lives, or brings an answer, it is the   *)
(* only one.                                                               *)
LEMMA FirstIsOnly ==
  ASSUME TypeInv, EndsInv, FirstInv, Types(down[1]) # {} \/ readyState[1] = "open"
  PROVE  /\ opened = 1 /\ timers = 0
         /\ \A k \in Conn : readyState[k] # "none" \/ handler[k] # "none" => k = 1
<1>0. 1 \in Conn BY Numbers
<1>1. readyState[1] # "closed" BY <1>0, TypesEmpty DEF EndsInv
<1>2. ~ opened >= 2 /\ ~ timers > 0 BY <1>1 DEF FirstInv
<1>3. readyState[1] # "none" BY <1>0, TypesEmpty DEF EndsInv
<1>4. 1 <= opened BY <1>0, <1>3, Used
<1>5. opened = 1 /\ timers = 0 BY <1>2, <1>4, Numbers
<1>6. ASSUME NEW k \in Conn, readyState[k] # "none" \/ handler[k] # "none" PROVE k = 1
  <2>1. k <= opened BY <1>6, Used
  <2>. QED BY <1>5, <2>1, Numbers
<1>. QED BY <1>5, <1>6

LEMMA HandlesIn ==
  ASSUME TypeInv, NEW k \in Conn, NEW t, Handles(k, t)
  PROVE  /\ readyState[k] = "open" /\ t \in Types(down[k])
         /\ Types(down'[k]) \subseteq Later(down[k])
         /\ Types(down[k]) \subseteq {t} \cup Later(down[k])
<1>1. down[k] \in Seq(DownItems) BY TypeParts DEF Queues
<1>. QED BY <1>1, TypesTail DEF Handles

(* The first connection is told that the session has started by the step   *)
(* that opens the session, and by no other.                                *)
LEMMA FirstIsTold ==
  ASSUME TypeInv, StartInv, WayInv, [Next]_vars
  PROVE  \/ "session_started" \in Types(down'[1]) => "session_started" \in Types(down[1])
         \/ OpenSession(1) /\ Answers(1, "session_started")
<1>0. 1 \in Conn BY Numbers
<1>1. ASSUME NEW t \in Kinds, Answers(1, t), t # "session_started"
      PROVE  "session_started" \in Types(down'[1]) => "session_started" \in Types(down[1])
  BY <1>1 DEF Answers, More
<1>2. ASSUME Answers(1, "session_started") PROVE OpenSession(1)
  <2>1. ~ (ServeStart(1) /\ session = "open") BY <1>0, FirstServes
  <2>2. ~ Serving(1, "resume_session_connection")
    BY <1>0, HeadType DEF Serving, WayInv
  <2>. QED BY <1>2, <2>1, <2>2 DEF Answers
<1>. QED BY <1>0, <1>1, <1>2, TypesDown DEF Fewer

LEMMA WayStep ==
  ASSUME TypeInv, EndsInv, StartInv, NoneInv, FirstInv, WayInv, [Next]_vars
  PROVE  WayInv'
<1>0. 1 \in Conn BY Numbers
<1>1. "resume_session_connection" \notin Types(up'[1])
  <2>1. "resume_session_connection" \notin Types(up[1]) BY DEF WayInv
  <2>2. ASSUME NEW k \in Conn, k # 1, Opens(k) PROVE socket # 1
    BY <2>2, FirstOpens, Numbers
  <2>. QED BY <1>0, <2>1, <2>2, TypesUp DEF Fewer, More
<1>2. ASSUME "session_started" \in Types(down'[1])
      PROVE  status' \notin Talking
  <2>1. CASE "session_started" \in Types(down[1])
    <3>1. status \notin Talking /\ "session_started" \notin Later(down[1])
      BY <2>1 DEF WayInv
    <3>2. \A k \in Conn : readyState[k] = "open" => k = 1 BY <2>1, FirstIsOnly
    <3>3. ASSUME NEW k \in Conn, NEW t, Handles(k, t) PROVE FALSE
      <4>1. k = 1 BY <3>2, <3>3, HandlesIn
      <4>2. /\ Types(down'[1]) \subseteq Later(down[1])
            /\ Types(down[1]) \subseteq {t} \cup Later(down[1])
        BY <3>3, <4>1, HandlesIn
      <4>. QED BY <1>2, <3>1, <4>2
    <3>4. status' = status \/ status' \in {"connecting", "error", "gone"}
      BY <3>1, <3>3, StatusChanges DEF Talking
    <3>. QED BY <3>1, <3>4 DEF Talking
  <2>2. CASE OpenSession(1)
    <3>1. session = "none" /\ status' = status
      BY <1>0, <2>2, FirstServes DEF OpenSession, browser
    <3>. QED BY <3>1 DEF NoneInv
  <2>. QED BY <1>2, <2>1, <2>2, FirstIsTold
<1>3. "session_started" \notin Later(down'[1])
  <2>1. "session_started" \notin Later(down[1]) BY DEF WayInv
  <2>2. CASE Fewer(down'[1], down[1]) BY <2>1, <2>2 DEF Fewer
  <2>3. ASSUME NEW t \in Kinds, Answers(1, t), t # "session_started"
        PROVE  "session_started" \notin Later(down'[1])
    BY <2>1, <2>3 DEF Answers, More
  <2>4. CASE Answers(1, "session_started")
    <3>1. OpenSession(1)
      <4>1. ~ (ServeStart(1) /\ session = "open") BY <1>0, FirstServes
      <4>2. ~ Serving(1, "resume_session_connection")
        BY <1>0, HeadType DEF Serving, WayInv
      <4>. QED BY <2>4, <4>1, <4>2 DEF Answers
    <3>2. session = "none" BY <1>0, <3>1, FirstServes
    <3>3. down[1] = <<>> BY <1>0, <3>2 DEF NoneInv
    <3>. QED BY <2>4, <3>3 DEF Answers
  <2>. QED BY <1>0, <2>2, <2>3, <2>4, TypesDown
<1>. QED BY <1>1, <1>2, <1>3 DEF WayInv

LEMMA PauseStep ==
  ASSUME TypeInv, PauseInv, [Next]_vars
  PROVE  PauseInv'
<1> SUFFICES ASSUME clicks' = 0
             PROVE  /\ ~paused'
                    /\ \A k \in Conn :
                          /\ "pause_session" \notin Types(up'[k])
                          /\ "resume_session" \notin Types(up'[k])
                          /\ "session_paused" \notin Types(down'[k])
                          /\ "session_resumed" \notin Types(down'[k])
  BY DEF PauseInv
<1>1. clicks = 0 /\ ~ClickPause /\ ~ClickResume
  BY ClicksGrow, Numbers DEF ClickPause, ClickResume
<1>2. /\ ~paused
      /\ \A k \in Conn : /\ "pause_session" \notin Types(up[k])
                         /\ "resume_session" \notin Types(up[k])
                         /\ "session_paused" \notin Types(down[k])
                         /\ "session_resumed" \notin Types(down[k])
  BY <1>1 DEF PauseInv
<1>3. ASSUME NEW k \in Conn
      PROVE  ~Serving(k, "pause_session") /\ ~Serving(k, "resume_session")
  BY <1>2, HeadType DEF Serving
<1>4. ~paused' BY <1>2, <1>3, PausedChanges
<1>5. ASSUME NEW k \in Conn
      PROVE  "pause_session" \notin Types(up'[k]) /\ "resume_session" \notin Types(up'[k])
  BY <1>1, <1>2, TypesUp DEF Fewer, More
<1>6. ASSUME NEW k \in Conn
      PROVE  "session_paused" \notin Types(down'[k]) /\ "session_resumed" \notin Types(down'[k])
  <2>1. CASE Fewer(down'[k], down[k]) BY <1>2, <2>1 DEF Fewer
  <2>2. ASSUME NEW t \in Kinds, Answers(k, t)
        PROVE  "session_paused" \notin Types(down'[k]) /\ "session_resumed" \notin Types(down'[k])
    <3>1. t \notin {"session_paused", "session_resumed"} BY <1>3, <2>2 DEF Answers
    <3>. QED BY <1>2, <2>2, <3>1 DEF Answers, More
  <2>. QED BY <2>1, <2>2, TypesDown
<1>. QED BY <1>4, <1>5, <1>6

LEMMA EndStep ==
  ASSUME TypeInv, EndsInv, StartInv, NoneInv, FirstInv, WayInv, PauseInv, EndInv,
         ClosedInv, [Next]_vars
  PROVE  EndInv'
<1>0. 1 \in Conn BY Numbers
<1>1. ASSUME session # "none", ~capturing PROVE capturing' = FALSE
  <2>1. ~Start
    <3>1. ASSUME Start PROVE FALSE
      <4>1. readyState[1] = "none" BY <1>0, <3>1, Numbers DEF Start, StartInv, EndsInv
      <4>. QED BY <1>1, <4>1 DEF StartInv
    <3>. QED BY <3>1
  <2>2. capturing' \in BOOLEAN BY BrowserStep DEF BrowserType
  <2>. QED BY <1>1, <2>1, <2>2, CapturingChanges
<1>2. session' = "closed" => ~capturing'
  <2>1. CASE session = "closed" BY <1>1, <2>1 DEF EndInv
  <2>2. ASSUME NEW k \in Conn, ServeEnd(k) PROVE ~capturing'
    <3>1. "end_session" \in Types(up[k]) BY <2>2, HeadType DEF ServeEnd, Serving
    <3>. QED BY <1>1, <2>2, <3>1 DEF EndInv
  <2>3. \A k \in Conn : OpenSession(k) => session' = "open" BY DEF OpenSession
  <2>. QED BY <2>1, <2>2, <2>3, SessionChanges
<1>3. ASSUME NEW k \in Conn, "end_session" \in Types(up'[k])
      PROVE  \/ "end_session" \in Types(up[k])
             \/ End /\ k = socket /\ readyState[k] = "open"
  BY <1>3, TypesUp DEF Fewer, More
<1>4. End => session # "none" /\ UNCHANGED <<session, opened, timers, down, clicks>>
  BY DEF End, NoneInv, Talking, server, bounds
<1>5. ASSUME NEW k \in Conn, "end_session" \in Types(up'[k])
      PROVE  ~capturing' /\ session' # "none"
  <2>1. CASE "end_session" \in Types(up[k])
    <3>1. ~capturing /\ session # "none" BY <2>1 DEF EndInv
    <3>. QED BY <1>1, <3>1, SessionGoesOn
  <2>2. CASE End BY <1>4, <2>2 DEF End
  <2>. QED BY <1>3, <1>5, <2>1, <2>2
<1>6. ASSUME "end_session" \in Types(up'[1]), clicks' = 0
      PROVE  /\ opened' = 1 /\ timers' = 0 /\ status' \notin {"recording", "paused"}
             /\ "session_started" \notin Types(down'[1])
  <2>0. clicks = 0 BY <1>6, ClicksGrow
  <2>1. CASE "end_session" \in Types(up[1])
    <3>1. /\ opened = 1 /\ timers = 0 /\ status \notin {"recording", "paused"}
          /\ "session_started" \notin Types(down[1]) /\ session # "none"
      BY <1>0, <2>0, <2>1 DEF EndInv
    <3>2. \A k \in Conn : readyState[k] # "none" => k = 1
      BY <3>1, Used, Numbers
    <3>3. opened' = 1
      <4>1. status # "idle" BY <3>1 DEF StartInv
      <4>. QED BY <3>1, <4>1, OpenedChanges
    <3>4. timers' = 0
      <4>1. ASSUME NEW k \in Conn, k # 1, readyState[k] # "none" PROVE FALSE
        BY <3>2, <4>1
      <4>2. CASE timers' \in 0..timers BY <3>1, <4>2
      <4>. QED BY <3>1, <4>1, <4>2, TimersChange
    <3>5. ASSUME NEW k \in Conn, NEW t \in {"session_started", "session_paused", "session_resumed"},
                 Handles(k, t)
          PROVE  FALSE
      <4>1. k = 1 /\ t \in Types(down[1]) BY <3>2, <3>5, HandlesIn
      <4>. QED BY <1>0, <2>0, <3>1, <4>1 DEF PauseInv
    <3>6. status' \notin {"recording", "paused"}
      BY <3>1, <3>5, StatusChanges
    <3>7. "session_started" \notin Types(down'[1])
      <4>1. ~OpenSession(1) BY <1>0, <3>1, FirstServes
      <4>. QED BY <3>1, <4>1, FirstIsTold
    <3>. QED BY <3>3, <3>4, <3>6, <3>7
  <2>2. CASE End /\ readyState[1] = "open"
    <3>1. opened = 1 /\ timers = 0 BY <2>2, FirstIsOnly
    <3>2. "session_started" \notin Types(down[1])
      BY <2>2 DEF End, WayInv, Talking
    <3>3. status' = "ending" BY <2>2 DEF End
    <3>. QED BY <1>4, <2>2, <3>1, <3>2, <3>3
  <2>. QED BY <1>0, <1>3, <1>6, <2>1, <2>2
<1>. QED BY <1>2, <1>5, <1>6 DEF EndInv

(* A head of the queue that ends the session: everything was accepted.     *)
LEMMA EndIsComplete ==
  ASSUME TypeInv, EndInv, GapInv, Quiet, session # "closed",
         NEW k \in Conn, Serving(k, "end_session")
  PROVE  lastSequence < 0 \/ lastSequence >= sequence - 1
<1>1. up[k] \in Seq(UpItems) /\ up[k] # <<>> /\ Head(up[k]).type = "end_session"
  BY TypeParts DEF Queues, Serving
<1>2. 1 \in 1..Len(up[k]) /\ up[k][1].type = "end_session" BY <1>1
<1>3. EndFollows(up[k], sequence - 1, lastSequence, Fresh) BY DEF GapInv, GapAt
<1>4. Covered(up[k], 1 - 1, sequence - 1, lastSequence, Fresh)
  BY <1>2, <1>3 DEF EndFollows
<1>5. sequence - 1 <= lastSequence \/ Fresh BY <1>4 DEF Covered
<1>. QED BY <1>5, Numbers DEF Fresh

LEMMA ClosedStep ==
  ASSUME TypeInv, EndsInv, StartInv, GapInv, EndInv, ClosedInv, [Next]_vars
  PROVE  ClosedInv'
<1>0. session = "closed" => session' = "closed" BY SessionGoesOn
<1>1. ASSUME session' = "closed", Quiet'
      PROVE  lastSequence' < 0 \/ lastSequence' >= sequence' - 1
  <2>1. Quiet
    <3>1. clicks = 0 BY <1>1, ClicksGrow DEF Quiet
    <3>2. sequence' <= BufferLimit BY <1>1 DEF Quiet
    <3>3. Grows BY GrowsStep
    <3>4. sequence <= BufferLimit BY <3>2, <3>3 DEF Grows
    <3>. QED BY <3>1, <3>4 DEF Quiet
  <2>2. CASE session = "closed"
    <3>1. lastSequence < 0 \/ lastSequence >= sequence - 1 BY <2>1, <2>2 DEF ClosedInv
    <3>2. ~Capture BY <2>2 DEF EndInv, Capture
    <3>3. UNCHANGED sequence
      <4>1. ASSUME NEW k \in Conn, AudioAck(k) PROVE UNCHANGED sequence
        BY <4>1 DEF AudioAck
      <4>. QED BY <3>2, <4>1, OnlyTheseBuffer
    <3>4. UNCHANGED lastSequence
      <4>1. ASSUME NEW k \in Conn, Accept(k) \/ AcceptRaises(k) PROVE FALSE
        BY <2>2, <4>1, Accepted
      <4>. QED BY <4>1, OnlyAcceptRecords
    <3>. QED BY <3>1, <3>3, <3>4
  <2>3. ASSUME NEW k \in Conn, ServeEnd(k), session # "closed"
        PROVE  lastSequence' < 0 \/ lastSequence' >= sequence' - 1
    <3>1. Serving(k, "end_session") /\ UNCHANGED <<sequence, lastSequence>>
      BY <2>3 DEF ServeEnd, browser
    <3>2. lastSequence < 0 \/ lastSequence >= sequence - 1
      BY <2>1, <2>3, <3>1, EndIsComplete
    <3>. QED BY <3>1, <3>2
  <2>4. \A k \in Conn : OpenSession(k) => session' = "open" BY DEF OpenSession
  <2>. QED BY <1>1, <2>2, <2>3, <2>4, SessionChanges
<1>2. ASSUME NEW k \in Conn, handler'[k] \in {"ending", "endingAgain"}
      PROVE  session' = "closed"
  <2>1. CASE handler[k] \in {"ending", "endingAgain"} BY <1>0, <2>1 DEF ClosedInv
  <2>2. CASE ServeEnd(k) BY <2>2 DEF ServeEnd
  <2>. QED BY <1>2, <2>1, <2>2, HandlerChanges
<1>3. ASSUME NEW k \in Conn, "session_ended" \in Types(down'[k])
      PROVE  session' = "closed" /\ jobs' > 0
  <2>1. CASE "session_ended" \in Types(down[k])
    BY <1>0, <2>1, JobsChange DEF ClosedInv
  <2>2. CASE Answers(k, "session_ended")
    <3>1. handler[k] = "ending" /\ CreateAnalysis(k) BY <2>2 DEF Answers
    <3>2. jobs' = jobs + 1 /\ jobs \in Nat
      BY <3>1, TypeParts DEF CreateAnalysis, ServerType
    <3>3. session = "closed" BY <3>1 DEF ClosedInv
    <3>. QED BY <1>0, <3>2, <3>3
  <2>3. ASSUME NEW t \in Kinds, Answers(k, t), t # "session_ended"
        PROVE  "session_ended" \in Types(down[k])
    BY <1>3, <2>3 DEF Answers, More
  <2>. QED BY <1>3, <2>1, <2>2, <2>3, TypesDown DEF Fewer
<1>4. ASSUME status' = "ended" PROVE session' = "closed" /\ jobs' > 0
  <2>1. CASE status = "ended" BY <1>0, <2>1, JobsChange DEF ClosedInv
  <2>2. ASSUME NEW k \in Conn, Handles(k, "session_ended")
        PROVE  session' = "closed" /\ jobs' > 0
    <3>1. "session_ended" \in Types(down[k]) BY <2>2, HandlesIn
    <3>. QED BY <1>0, <3>1, JobsChange DEF ClosedInv
  <2>. QED BY <1>4, <2>1, <2>2, StatusChanges
<1>. QED BY <1>1, <1>2, <1>3, <1>4 DEF ClosedInv

-----------------------------------------------------------------------------
(* Frames follow on one another.                                           *)

(* More is recorded: what was covered still is.                            *)
LEMMA CoveredGrows ==
  ASSUME NEW q, NEW m, NEW n \in Int, NEW last \in Int, NEW last2 \in Int, last <= last2,
         NEW fresh, NEW fresh2, fresh => fresh2, Covered(q, m, n, last, fresh)
  PROVE  Covered(q, m, n, last2, fresh2)
BY DEF Covered

(* The first message has been taken, and if it is a frame, it is recorded. *)
LEMMA CoveredTail ==
  ASSUME NEW q \in Seq(Messages), q # <<>>, NEW m \in 1..Len(q), NEW n \in Int,
         NEW last \in Int, NEW last2 \in Int, last <= last2, NEW fresh, NEW fresh2,
         Head(q).type = "frame" => Head(q).sequence <= last2,
         fresh /\ Head(q).type # "frame" => fresh2,
         Covered(q, m, n, last, fresh)
  PROVE  Covered(Tail(q), m - 1, n, last2, fresh2)
<1> DEFINE t == Tail(q)
<1>1. /\ Len(q) \in Nat /\ Len(t) = Len(q) - 1 /\ Head(q) = q[1]
      /\ \A i \in 1..Len(t) : t[i] = q[i + 1]
      /\ \A i \in 1..Len(q) : q[i].sequence \in Int
  <2>1. \A i \in 1..Len(q) : q[i] \in Messages BY ElementOfSeq
  <2>2. \A x \in Messages : x.sequence \in Int BY DEF Messages
  <2>3. /\ Len(q) \in Nat /\ Len(t) = Len(q) - 1 /\ Head(q) = q[1]
        /\ \A i \in 1..Len(t) : t[i] = q[i + 1]
    BY HeadTailProperties
  <2>. QED BY <2>1, <2>2, <2>3
<1> HIDE DEF t
<1>2. CASE n <= last BY <1>2 DEF Covered
<1>3. ASSUME NEW j \in 1..m, q[j].type = "frame", q[j].sequence >= n
      PROVE  Covered(t, m - 1, n, last2, fresh2)
  <2>1. CASE j = 1
    <3>1. q[1].sequence \in Int BY <1>1
    <3>2. q[1].sequence <= last2 /\ q[1].sequence >= n BY <1>1, <1>3, <2>1
    <3>3. n <= last2 BY <3>1, <3>2
    <3>. QED BY <3>3 DEF Covered
  <2>2. CASE j # 1
    <3>1. j - 1 \in 1..(m - 1) /\ j - 1 \in 1..Len(t) /\ (j - 1) + 1 = j BY <1>1, <2>2
    <3>2. t[j - 1] = q[j] BY <1>1, <3>1
    <3>. QED BY <1>3, <3>1, <3>2 DEF Covered
  <2>. QED BY <2>1, <2>2
<1>4. CASE fresh /\ \A j \in 1..m : q[j].type # "frame"
  <2>1. 1 \in 1..m OBVIOUS
  <2>2. fresh2 BY <1>1, <1>4, <2>1
  <2>3. ASSUME NEW j \in 1..(m - 1) PROVE t[j].type # "frame"
    <3>1. j + 1 \in 1..m /\ j \in 1..Len(t) BY <1>1
    <3>. QED BY <1>1, <1>4, <3>1
  <2>. QED BY <2>2, <2>3 DEF Covered, t
<1>. QED BY <1>2, <1>3, <1>4 DEF Covered, t

LEMMA FollowsTail ==
  ASSUME NEW q \in Seq(Messages), q # <<>>, NEW last \in Int, NEW last2 \in Int,
         last <= last2, NEW fresh, NEW fresh2,
         Head(q).type = "frame" => Head(q).sequence <= last2,
         fresh /\ Head(q).type # "frame" => fresh2
  PROVE  /\ Follows(q, last, fresh) => Follows(Tail(q), last2, fresh2)
         /\ \A n \in Int : EndFollows(q, n, last, fresh) =>
                              EndFollows(Tail(q), n, last2, fresh2)
         /\ \A n \in Int : Covered(q, Len(q), n, last, fresh) =>
                              Covered(Tail(q), Len(Tail(q)), n, last2, fresh2)
<1> DEFINE t == Tail(q)
<1>1. /\ Len(q) \in Nat /\ Len(q) > 0 /\ Len(t) = Len(q) - 1
      /\ \A i \in 1..Len(t) : t[i] = q[i + 1]
  BY HeadTailProperties
<1>2. \A i \in 1..Len(q) : q[i].sequence - 1 \in Int
  <2>1. \A i \in 1..Len(q) : q[i] \in Messages BY ElementOfSeq
  <2>2. \A x \in Messages : x.sequence \in Int BY DEF Messages
  <2>3. \A i \in 1..Len(q) : q[i].sequence \in Int BY <2>1, <2>2
  <2>. QED BY <2>3
<1>3. ASSUME NEW m \in 1..Len(q), NEW n \in Int, Covered(q, m, n, last, fresh)
      PROVE  Covered(t, m - 1, n, last2, fresh2)
  BY <1>3, CoveredTail
<1> HIDE DEF t
<1>4. ASSUME NEW i \in 1..Len(t)
      PROVE  i + 1 \in 1..Len(q) /\ t[i] = q[i + 1] /\ (i + 1) - 1 = i
  BY <1>1
<1>5. ASSUME Follows(q, last, fresh) PROVE Follows(t, last2, fresh2)
  <2>1. ASSUME NEW i \in 1..Len(t), t[i].type = "frame"
        PROVE  Covered(t, i - 1, t[i].sequence - 1, last2, fresh2)
    <3>1. Covered(q, i, t[i].sequence - 1, last, fresh)
      BY <1>4, <1>5, <2>1 DEF Follows
    <3>2. i \in 1..Len(q) /\ t[i].sequence - 1 \in Int BY <1>1, <1>2, <1>4, SMTT(30)
    <3>. QED BY <1>3, <3>1, <3>2
  <2>. QED BY <2>1 DEF Follows
<1>6. ASSUME NEW n \in Int, EndFollows(q, n, last, fresh)
      PROVE  EndFollows(t, n, last2, fresh2)
  <2>1. ASSUME NEW i \in 1..Len(t), t[i].type = "end_session"
        PROVE  Covered(t, i - 1, n, last2, fresh2)
    <3>1. Covered(q, i, n, last, fresh) BY <1>4, <1>6, <2>1 DEF EndFollows
    <3>2. i \in 1..Len(q) BY <1>1
    <3>. QED BY <1>3, <3>1, <3>2
  <2>. QED BY <2>1 DEF EndFollows
<1>7. ASSUME NEW n \in Int, Covered(q, Len(q), n, last, fresh)
      PROVE  Covered(t, Len(t), n, last2, fresh2)
  <2>1. Len(q) \in 1..Len(q) /\ Len(t) = Len(q) - 1 BY <1>1
  <2>. QED BY <1>3, <1>7, <2>1
<1>. QED BY <1>5, <1>6, <1>7 DEF t

(* Messages have been added to a queue.                                    *)
LEMMA CoveredJoin ==
  ASSUME NEW q \in Seq(Messages), NEW r \in Seq(Messages), NEW n, NEW last, NEW fresh
  PROVE  /\ \A m \in 0..Len(q) : Covered(q, m, n, last, fresh) =>
                                    Covered(Join(q, r), m, n, last, fresh)
         /\ Covered(q, Len(q), n, last, fresh) /\ (\A i \in 1..Len(r) : r[i].type # "frame") =>
               \A m \in 0..Len(r) : Covered(Join(q, r), Len(q) + m, n, last, fresh)
<1> DEFINE t == Join(q, r)
<1>1. /\ t \in Seq(Messages) /\ Len(t) = Len(q) + Len(r)
      /\ Len(q) \in Nat /\ Len(r) \in Nat
      /\ \A i \in 1..Len(q) : t[i] = q[i]
      /\ \A i \in 1..Len(r) : t[Len(q) + i] = r[i]
  BY DEF Join
<1> HIDE DEF t
<1>2. ASSUME NEW m \in 0..Len(q), Covered(q, m, n, last, fresh)
      PROVE  Covered(t, m, n, last, fresh)
  <2>1. \A j \in 1..m : j \in 1..Len(q) BY <1>1
  <2>2. \A j \in 1..m : t[j] = q[j] BY <1>1, <2>1
  <2>. QED BY <1>2, <2>2 DEF Covered
<1>3. ASSUME Covered(q, Len(q), n, last, fresh), \A i \in 1..Len(r) : r[i].type # "frame",
             NEW m \in 0..Len(r)
      PROVE  Covered(t, Len(q) + m, n, last, fresh)
  <2>1. CASE n <= last BY <2>1 DEF Covered
  <2>2. ASSUME NEW j \in 1..Len(q), q[j].type = "frame", q[j].sequence >= n
        PROVE  Covered(t, Len(q) + m, n, last, fresh)
    <3>1. j \in 1..(Len(q) + m) /\ t[j] = q[j] BY <1>1
    <3>. QED BY <2>2, <3>1 DEF Covered
  <2>3. CASE fresh /\ \A j \in 1..Len(q) : q[j].type # "frame"
    <3>1. ASSUME NEW j \in 1..(Len(q) + m) PROVE t[j].type # "frame"
      <4>1. CASE j \in 1..Len(q) BY <1>1, <2>3, <4>1
      <4>2. CASE j \notin 1..Len(q)
        <5>1. j - Len(q) \in 1..Len(r) /\ Len(q) + (j - Len(q)) = j BY <1>1, <4>2
        <5>. QED BY <1>1, <1>3, <5>1
      <4>. QED BY <4>1, <4>2
    <3>. QED BY <2>3, <3>1 DEF Covered
  <2>. QED BY <1>3, <2>1, <2>2, <2>3 DEF Covered
<1>. QED BY <1>2, <1>3 DEF t

LEMMA FollowsJoin ==
  ASSUME NEW q \in Seq(Messages), NEW r \in Seq(Messages), NEW last, NEW fresh
  PROVE  /\ /\ Follows(q, last, fresh)
            /\ \A i \in 1..Len(r) : r[i].type = "frame" =>
                  Covered(Join(q, r), Len(q) + i - 1, r[i].sequence - 1, last, fresh)
            => Follows(Join(q, r), last, fresh)
         /\ \A n : /\ EndFollows(q, n, last, fresh)
                   /\ \A i \in 1..Len(r) : r[i].type = "end_session" =>
                         Covered(Join(q, r), Len(q) + i - 1, n, last, fresh)
                   => EndFollows(Join(q, r), n, last, fresh)
<1> DEFINE t == Join(q, r)
<1>1. /\ t \in Seq(Messages) /\ Len(t) = Len(q) + Len(r)
      /\ Len(q) \in Nat /\ Len(r) \in Nat
      /\ \A i \in 1..Len(q) : t[i] = q[i]
      /\ \A i \in 1..Len(r) : t[Len(q) + i] = r[i]
  BY DEF Join
<1>2. ASSUME NEW m \in 0..Len(q), NEW n, Covered(q, m, n, last, fresh)
      PROVE  Covered(t, m, n, last, fresh)
  BY <1>2, CoveredJoin
<1> HIDE DEF t
<1>3. ASSUME NEW i \in 1..Len(t)
      PROVE  \/ i \in 1..Len(q) /\ i - 1 \in 0..Len(q) /\ t[i] = q[i]
             \/ \E j \in 1..Len(r) : i - 1 = Len(q) + j - 1 /\ t[i] = r[j]
  <2>1. CASE i <= Len(q) BY <1>1, <2>1
  <2>2. CASE i > Len(q)
    <3>1. i - Len(q) \in 1..Len(r) /\ Len(q) + (i - Len(q)) = i BY <1>1, <2>2
    <3>2. i - 1 = Len(q) + (i - Len(q)) - 1 /\ t[i] = r[i - Len(q)] BY <1>1, <3>1
    <3>. QED BY <3>1, <3>2
  <2>. QED BY <1>1, <2>1, <2>2
<1>4. ASSUME Follows(q, last, fresh),
             \A i \in 1..Len(r) : r[i].type = "frame" =>
                Covered(t, Len(q) + i - 1, r[i].sequence - 1, last, fresh)
      PROVE  Follows(t, last, fresh)
  <2>1. ASSUME NEW i \in 1..Len(t), t[i].type = "frame"
        PROVE  Covered(t, i - 1, t[i].sequence - 1, last, fresh)
    <3>1. CASE i \in 1..Len(q) /\ i - 1 \in 0..Len(q) /\ t[i] = q[i]
      <4>1. Covered(q, i - 1, q[i].sequence - 1, last, fresh)
        BY <1>4, <2>1, <3>1 DEF Follows
      <4>. QED BY <1>2, <3>1, <4>1
    <3>2. ASSUME NEW j \in 1..Len(r), i - 1 = Len(q) + j - 1, t[i] = r[j]
          PROVE  Covered(t, i - 1, t[i].sequence - 1, last, fresh)
      BY <1>4, <2>1, <3>2
    <3>. QED BY <1>3, <3>1, <3>2
  <2>. QED BY <2>1 DEF Follows
<1>5. ASSUME NEW n, EndFollows(q, n, last, fresh),
             \A i \in 1..Len(r) : r[i].type = "end_session" =>
                Covered(t, Len(q) + i - 1, n, last, fresh)
      PROVE  EndFollows(t, n, last, fresh)
  <2>1. ASSUME NEW i \in 1..Len(t), t[i].type = "end_session"
        PROVE  Covered(t, i - 1, n, last, fresh)
    <3>1. CASE i \in 1..Len(q) /\ i - 1 \in 0..Len(q) /\ t[i] = q[i]
      <4>1. Covered(q, i - 1, n, last, fresh) BY <1>5, <2>1, <3>1 DEF EndFollows
      <4>. QED BY <1>2, <3>1, <4>1
    <3>2. ASSUME NEW j \in 1..Len(r), i - 1 = Len(q) + j - 1, t[i] = r[j]
          PROVE  Covered(t, i - 1, n, last, fresh)
      BY <1>5, <2>1, <3>2
    <3>. QED BY <1>3, <3>1, <3>2
  <2>. QED BY <2>1 DEF EndFollows
<1>. QED BY <1>4, <1>5 DEF t

LEMMA FollowsEmpty ==
  ASSUME NEW q, NEW n, NEW last, NEW fresh
  PROVE  /\ "frame" \notin Types(q) => Follows(q, last, fresh)
         /\ "end_session" \notin Types(q) => EndFollows(q, n, last, fresh)
         /\ "frame" \notin Types(<<>>) /\ "end_session" \notin Types(<<>>)
BY TypesEmpty DEF Types, Follows, EndFollows

(* A connection that was lost stays so, and only what opens is new.        *)
LEMMA CutGrows ==
  ASSUME TypeInv, [Next]_vars, NEW j \in Conn, cut[j]
  PROVE  cut'[j]
<1>1. cut \in [Conn -> BOOLEAN] /\ socket \in 0..Connections
  BY TypeParts DEF ServerType, BrowserType
<1>2. CASE \/ Start \/ Capture \/ ClickPause \/ ClickResume \/ End \/ Reconnect
           \/ UNCHANGED vars
  BY <1>2 DEF Start, Capture, ClickPause, ClickResume, End, Reconnect, network, vars
<1>3. ASSUME cut' = [cut EXCEPT ![socket] = TRUE] PROVE cut'[j] BY <1>1, <1>3
<1>4. CASE StartTimeout BY <1>3, <1>4 DEF StartTimeout, Fail, Shows, CloseSocket, Shut
<1>5. CASE Leave \/ Unmount BY <1>1, <1>3, <1>5 DEF Leave, Unmount, CloseSocket
<1>6. ASSUME NEW k \in Conn, cut' = cut \/ cut' = [cut EXCEPT ![k] = TRUE] PROVE cut'[j]
  BY <1>1, <1>6
<1>7. ASSUME NEW k \in Conn, cut' = [cut EXCEPT ![k] = TRUE, ![socket] = TRUE] PROVE cut'[j]
  BY <1>1, <1>7
<1>8. ASSUME NEW k \in Conn, OpenFails(k) \/ Closes(k) PROVE cut'[j]
  BY <1>3, <1>6, <1>7, <1>8 DEF OpenFails, Closes, Fail, Shows, CloseSocket, Shut, ScheduleReconnect
<1>9. ASSUME NEW k \in Conn, Opens(k) \/ Receive(k) \/ Drop(k) PROVE cut'[j]
  BY <1>3, <1>6, <1>9 DEF Opens, Receive, Drop, SessionStarted, AudioAck,
     SessionPausedOrResumed, SessionEnded, ErrorEvent
<1>10. ASSUME NEW k \in Conn, Serve(k) \/ OpenSessionFails(k) \/ AcceptRaises(k)
                              \/ EndRaises(k) \/ AnalysisFails(k)
       PROVE  cut'[j]
  BY <1>6, <1>10 DEF Serve, ServeStart, OpenSession, Accept, AcceptDuplicate, Refuse,
     Control, ServeEnd, CreateAnalysis, Disconnected, OpenSessionFails, AcceptRaises,
     EndRaises, AnalysisFails, Raises
<1>. QED BY <1>2, <1>4, <1>5, <1>8, <1>9, <1>10 DEF Next

LEMMA CurrentWas ==
  ASSUME TypeInv, EndsInv, [Next]_vars, opened' = opened, NEW k \in Conn, ~Opens(k)
  PROVE  Current(k)' => Current(k)
<1>1. TypeInv' BY TypeStep
<1>2. socket' = socket BY <1>1 DEF TypeInv
<1>3. readyState'[k] = "open" => readyState[k] = "open" BY ReadyChanges
<1>4. cut[k] => cut'[k] BY CutGrows
<1>. QED BY <1>2, <1>3, <1>4 DEF Current

LEMMA QuietBefore ==
  ASSUME TypeInv, StartInv, PauseInv, GapInv, [Next]_vars, Quiet', session' # "closed"
  PROVE  /\ Quiet /\ clicks = 0 /\ sequence <= BufferLimit /\ clicks' = 0
         /\ ~paused /\ session # "closed" /\ \A k \in Conn : GapAt(k)
<1>1. clicks = 0 /\ clicks' = 0 /\ sequence' <= BufferLimit BY ClicksGrow DEF Quiet
<1>2. sequence <= BufferLimit BY <1>1, GrowsStep DEF Grows
<1>3. session # "closed" BY SessionGoesOn
<1>. QED BY <1>1, <1>2, <1>3 DEF Quiet, PauseInv, GapInv

(* The first connection, once there is another.                            *)
LEMMA GapLost ==
  ASSUME TypeInv', EndInv', clicks' = 0, NEW k \in Conn, ~Counts(k)'
  PROVE  GapAt(k)'
<1>1. k = 1 /\ opened' \in Nat /\ opened' >= 2 /\ socket' = opened'
  <2>1. opened' \in 0..Connections /\ socket' = opened' BY DEF TypeInv, TypeOK
  <2>. QED BY <2>1 DEF Counts, Conn
<1>2. "end_session" \notin Types(up'[k]) BY <1>1 DEF EndInv
<1>3. EndFollows(up'[k], sequence' - 1, lastSequence', Fresh') BY <1>2, FollowsEmpty
<1>4. ~Current(k)' BY <1>1 DEF Current
<1>. QED BY <1>3, <1>4 DEF GapAt

(* A queue in which nothing waits, of a connection that is not used.       *)
LEMMA GapEmpty ==
  ASSUME NEW k \in Conn, up'[k] = <<>>, ~Current(k)'
  PROVE  GapAt(k)'
<1>1. "frame" \notin Types(up'[k]) /\ "end_session" \notin Types(up'[k])
  BY TypesEmpty
<1>2. /\ Follows(up'[k], lastSequence', Fresh')
      /\ EndFollows(up'[k], sequence' - 1, lastSequence', Fresh')
  BY <1>1, FollowsEmpty
<1>. QED BY <1>2 DEF GapAt

LEMMA GapSame ==
  ASSUME NEW k \in Conn, GapAt(k), up'[k] = up[k], Current(k)' => Current(k),
         UNCHANGED <<sequence, lastSequence, opened>>
  PROVE  GapAt(k)'
<1>1. Fresh' = Fresh /\ Counts(k)' = Counts(k) BY DEF Fresh, Counts
<1>. QED BY <1>1 DEF GapAt

LEMMA UpMessages ==
  ASSUME TypeInv, NEW k \in Conn
  PROVE  up[k] \in Seq(Messages) /\ up[k] \in Seq(UpItems)
<1>1. up[k] \in Seq(UpItems) BY TypeParts DEF Queues
<1>. QED BY <1>1, SeqGrows DEF UpItems

(* Another connection.                                                     *)
LEMMA GapAnother ==
  ASSUME TypeInv, EndsInv, StartInv, FirstInv, EndInv', Start \/ Reconnect,
         clicks' = 0, NEW k \in Conn, GapAt(k)
  PROVE  GapAt(k)'
<1>0. TypeInv' BY TypeStep DEF Next
<1>1. /\ opened' = opened + 1 /\ socket' = opened + 1 /\ opened < Connections
      /\ readyState' = [readyState EXCEPT ![opened + 1] = "connecting"]
      /\ UNCHANGED <<up, sequence, lastSequence>>
  BY DEF Start, Reconnect, Connect, network, server
<1>2. ~Current(k)'
  <2>1. opened + 1 \in Conn /\ DOMAIN readyState = Conn
    BY <1>1, Numbers, TypeParts DEF Conn, ServerType
  <2>. QED BY <1>1, <2>1 DEF Current
<1>3. CASE up[k] = <<>> BY <1>1, <1>2, <1>3, GapEmpty
<1>4. CASE up[k] # <<>>
  <2>1. k <= opened BY <1>4, Used
  <2>2. opened >= 1 BY <2>1, Numbers
  <2>3. CASE opened = 1
    <3>1. k = 1 BY <2>1, <2>3, Numbers
    <3>2. ~Counts(k)' BY <1>1, <2>3, <3>1 DEF Counts
    <3>. QED BY <1>0, <3>2, GapLost
  <2>4. CASE opened >= 2
    <3>1. Fresh' = FALSE /\ Fresh = FALSE BY <1>1, <2>4, Numbers DEF Fresh
    <3>2. Counts(k)' => Counts(k) BY <1>1, <2>4, Numbers DEF Counts
    <3>. QED BY <1>1, <1>2, <3>1, <3>2 DEF GapAt
  <2>. QED BY <2>2, <2>3, <2>4, Numbers
<1>. QED BY <1>3, <1>4

(* A message is served.  A frame among them is in the recording then.      *)
LEMMA GapTaken ==
  ASSUME TypeInv, TypeInv', NEW k \in Conn, GapAt(k), up[k] # <<>>, up'[k] = Tail(up[k]),
         lastSequence <= lastSequence', UNCHANGED <<sequence, opened>>,
         Head(up[k]).type = "frame" => Head(up[k]).sequence <= lastSequence',
         Head(up[k]).type # "frame" => lastSequence' = lastSequence,
         Current(k)' => Current(k), Counts(k)
  PROVE  GapAt(k)'
<1>1. up[k] \in Seq(Messages) BY UpMessages
<1>2. /\ lastSequence \in Int /\ lastSequence' \in Int /\ sequence - 1 \in Int
  BY DEF TypeInv, TypeOK
<1>3. Fresh /\ Head(up[k]).type # "frame" => Fresh' BY DEF Fresh
<1>4. /\ Follows(up[k], lastSequence, Fresh)
      /\ EndFollows(up[k], sequence - 1, lastSequence, Fresh)
      /\ Current(k) => Covered(up[k], Len(up[k]), sequence - 1, lastSequence, Fresh)
  BY DEF GapAt
<1> DEFINE F == Fresh
           G == Fresh'
           last == lastSequence
           last2 == lastSequence'
           q == up[k]
<1>5. /\ Follows(q, last, F) => Follows(Tail(q), last2, G)
      /\ \A n \in Int : EndFollows(q, n, last, F) => EndFollows(Tail(q), n, last2, G)
      /\ \A n \in Int : Covered(q, Len(q), n, last, F) =>
                           Covered(Tail(q), Len(Tail(q)), n, last2, G)
  <2>1. /\ q \in Seq(Messages) /\ q # <<>> /\ last \in Int /\ last2 \in Int /\ last <= last2
        /\ Head(q).type = "frame" => Head(q).sequence <= last2
        /\ F /\ Head(q).type # "frame" => G
    BY <1>1, <1>2, <1>3
  <2> HIDE DEF F, G, last, last2, q
  <2>. QED BY <2>1, FollowsTail
<1>6. /\ Follows(up'[k], lastSequence', Fresh')
      /\ EndFollows(up'[k], sequence' - 1, lastSequence', Fresh')
      /\ Current(k)' => Covered(up'[k], Len(up'[k]), sequence' - 1, lastSequence', Fresh')
  <2>1. up'[k] = Tail(q) /\ sequence' - 1 = sequence - 1 OBVIOUS
  <2> HIDE DEF F, G, last, last2, q
  <2>2. Follows(q, last, F) /\ EndFollows(q, sequence - 1, last, F)
    BY <1>4 DEF F, last, q
  <2>3. Current(k)' => Covered(q, Len(q), sequence - 1, last, F)
    BY <1>4 DEF F, last, q
  <2>4. /\ Follows(Tail(q), last2, G) /\ EndFollows(Tail(q), sequence - 1, last2, G)
        /\ Current(k)' => Covered(Tail(q), Len(Tail(q)), sequence - 1, last2, G)
    BY <1>2, <1>5, <2>2, <2>3
  <2>. QED BY <2>1, <2>4 DEF G, last2
<1>. QED BY <1>6 DEF GapAt

(* A frame is captured and sent.                                           *)
LEMMA GapCaptured ==
  ASSUME TypeInv, EndInv', Capture, NEW k \in Conn, GapAt(k)
  PROVE  GapAt(k)'
<1> DEFINE q == up[k]
           f == Message("frame", sequence)
           t == Join(q, <<f>>)
<1>1. /\ sequence' = sequence + 1 /\ sequence \in Nat /\ capturing' = TRUE
      /\ Send(<<f>>)
      /\ UNCHANGED <<lastSequence, opened, socket, readyState, cut>>
  BY Numbers, TypeParts DEF Capture, server, BrowserType
<1>2. Fresh' = Fresh /\ Counts(k)' = Counts(k) /\ Current(k)' = Current(k)
  BY <1>1 DEF Fresh, Counts, Current
<1>3. "end_session" \notin Types(up'[k]) BY <1>1 DEF EndInv
<1>4. EndFollows(up'[k], sequence' - 1, lastSequence', Fresh') BY <1>3, FollowsEmpty
<1>5. CASE ~Current(k)
  <2>1. up'[k] = up[k] BY <1>1, <1>5, SendUp DEF Current
  <2>. QED BY <1>1, <1>2, <1>4, <1>5, <2>1 DEF GapAt
<1>6. CASE Current(k)
  <2>1. up'[k] = t BY <1>1, <1>6, SendUp DEF Current
  <2>2. q \in Seq(Messages) BY UpMessages
  <2>3. f \in Messages /\ f.type = "frame" /\ f.sequence = sequence
    <3>1. "frame" \in Kinds /\ sequence \in Nat \cup {-1} BY <1>1 DEF Kinds
    <3>. QED BY <3>1, MessageItems
  <2> HIDE DEF f
  <2>4. <<f>> \in Seq(Messages) /\ Len(<<f>>) = 1 /\ <<f>>[1] = f BY <2>3
  <2> DEFINE r == <<f>>
             F == Fresh
             last == lastSequence
  <2>5. Covered(q, Len(q), sequence - 1, last, F) BY <1>6 DEF GapAt
  <2>6. r \in Seq(Messages) BY <2>4
  <2>11. Len(r) = 1 /\ r[1] = f BY <2>4
  <2> HIDE DEF q, r, F, last
  <2>7. /\ Len(Join(q, r)) = Len(q) + 1 /\ Len(q) \in Nat
        /\ Join(q, r)[Len(q) + 1] = f
    <3>1. /\ Len(Join(q, r)) = Len(q) + Len(r) /\ Len(q) \in Nat
          /\ \A i \in 1..Len(r) : Join(q, r)[Len(q) + i] = r[i]
      BY <2>2, <2>6, JoinItems
    <3>. QED BY <2>11, <3>1
  <2>8. Counts(k) => Follows(Join(q, r), last, F)
    <3>1. Counts(k) => Follows(q, last, F) BY DEF GapAt, q, last, F
    <3>2. Covered(Join(q, r), Len(q), sequence - 1, last, F)
      <4>1. Len(q) \in 0..Len(q) BY <2>7
      <4>. QED BY <2>2, <2>5, <2>6, <4>1, CoveredJoin
    <3>3. \A i \in 1..Len(r) : i = 1 /\ Len(q) + i - 1 = Len(q) BY <2>7, <2>11
    <3>4. \A i \in 1..Len(r) : r[i].type = "frame" =>
             Covered(Join(q, r), Len(q) + i - 1, r[i].sequence - 1, last, F)
      BY <2>3, <2>11, <3>2, <3>3
    <3>. QED BY <2>2, <2>6, <3>1, <3>4, FollowsJoin
  <2>9. Covered(Join(q, r), Len(q) + 1, sequence, last, F)
    <3>1. Len(q) + 1 \in 1..(Len(q) + 1) BY <2>7
    <3>2. sequence >= sequence BY <1>1
    <3>. QED BY <2>3, <2>7, <3>1, <3>2 DEF Covered
  <2>10. /\ up'[k] = Join(q, r) /\ sequence' - 1 = sequence /\ lastSequence' = last
         /\ Fresh' = F
    BY <1>1, <1>2, <2>1 DEF r, last, F
  <2>. QED BY <1>2, <1>4, <2>7, <2>8, <2>9, <2>10 DEF GapAt
<1>. QED BY <1>5, <1>6

(* The call is ended.                                                      *)
LEMMA GapEnds ==
  ASSUME TypeInv, End, NEW k \in Conn, GapAt(k)
  PROVE  GapAt(k)'
<1> DEFINE q == up[k]
           e == Message("end_session", -1)
<1>1. /\ Send(<<e>>)
      /\ UNCHANGED <<sequence, lastSequence, opened, socket, readyState, cut>>
  BY DEF End, server
<1>2. Fresh' = Fresh /\ Counts(k)' = Counts(k) /\ Current(k)' = Current(k)
  BY <1>1 DEF Fresh, Counts, Current
<1>3. CASE ~Current(k)
  <2>1. up'[k] = up[k] BY <1>1, <1>3, SendUp DEF Current
  <2>. QED BY <1>1, <1>2, <1>3, <2>1, GapSame
<1>4. CASE Current(k)
  <2>1. up'[k] = Join(q, <<e>>) BY <1>1, <1>4, SendUp DEF Current
  <2>2. q \in Seq(Messages) BY UpMessages
  <2>3. e \in Messages /\ e.type = "end_session"
    <3>1. "end_session" \in Kinds /\ -1 \in Nat \cup {-1} BY DEF Kinds
    <3>. QED BY <3>1, MessageItems
  <2> HIDE DEF e
  <2> DEFINE r == <<e>>
             F == Fresh
             last == lastSequence
             n == sequence - 1
  <2>4. r \in Seq(Messages) /\ Len(r) = 1 /\ r[1] = e BY <2>3
  <2>5. Covered(q, Len(q), n, last, F) BY <1>4 DEF GapAt
  <2> HIDE DEF q, r, F, last, n
  <2>6. Len(Join(q, r)) = Len(q) + 1 /\ Len(q) \in Nat
    <3>1. Len(Join(q, r)) = Len(q) + Len(r) /\ Len(q) \in Nat
      BY <2>2, <2>4, JoinItems
    <3>. QED BY <2>4, <3>1
  <2>7. Covered(Join(q, r), Len(q), n, last, F)
    <3>1. Len(q) \in 0..Len(q) BY <2>6
    <3>. QED BY <2>2, <2>4, <2>5, <3>1, CoveredJoin
  <2>8. Covered(Join(q, r), Len(q) + 1, n, last, F)
    <3>1. \A i \in 1..Len(r) : r[i].type # "frame" BY <2>3, <2>4
    <3>2. 1 \in 0..Len(r) BY <2>4
    <3>. QED BY <2>2, <2>4, <2>5, <3>1, <3>2, CoveredJoin
  <2>9. \A i \in 1..Len(r) : r[i].type # "frame" /\ Len(q) + i - 1 = Len(q)
    BY <2>3, <2>4, <2>6
  <2>10. Counts(k) => Follows(Join(q, r), last, F)
    <3>1. Counts(k) => Follows(q, last, F) BY DEF GapAt, q, last, F
    <3>. QED BY <2>2, <2>4, <2>9, <3>1, FollowsJoin
  <2>11. EndFollows(Join(q, r), n, last, F)
    <3>1. EndFollows(q, n, last, F) BY DEF GapAt, q, last, F, n
    <3>2. \A i \in 1..Len(r) : r[i].type = "end_session" =>
             Covered(Join(q, r), Len(q) + i - 1, n, last, F)
      BY <2>7, <2>9
    <3>. QED BY <2>2, <2>4, <3>1, <3>2, FollowsJoin
  <2>12. /\ up'[k] = Join(q, r) /\ sequence' - 1 = n /\ lastSequence' = last
         /\ Fresh' = F
    BY <1>1, <1>2, <2>1 DEF r, last, F, n
  <2>. QED BY <1>2, <2>6, <2>8, <2>10, <2>11, <2>12 DEF GapAt
<1>. QED BY <1>3, <1>4

(* What a reconnection sends again follows on what is recorded, and ends   *)
(* with the last frame that was captured.                                  *)
LEMMA ResendCovers ==
  ASSUME TypeInv, KeptInv, sequence <= BufferLimit, NEW k \in Conn, k # 1,
         NEW q \in Seq(Messages), NEW fresh
  PROVE  LET r == FirstMessages(k)
             t == Join(q, r) IN
         /\ \A i \in 1..Len(r) : r[i].type = "frame" =>
               Covered(t, Len(q) + i - 1, r[i].sequence - 1, lastSequence, fresh)
         /\ Covered(t, Len(t), sequence - 1, lastSequence, fresh)
<1> DEFINE r == FirstMessages(k)
           t == Join(q, r)
           b == Message("resume_session_connection", -1)
           N == Len(Resend)
<1>1. /\ N \in Nat
      /\ \A i \in 1..N : Resend[i] \in Unacknowledged
      /\ \A i, j \in 1..N : i < j => Resend[i] < Resend[j]
      /\ \A n \in Unacknowledged : \E i \in 1..N : Resend[i] = n
  BY ResendItems
<1>2. \A n \in Unacknowledged : n \in 0..(sequence - 1) /\ n \in Int
  BY Numbers, TypeParts DEF Unacknowledged, BrowserType
<1>3. ASSUME NEW n \in Int, n > lastSequence, n <= sequence - 1
      PROVE  \E i \in 1..N : Resend[i] = n
  <2>1. /\ lastAck \in Int /\ lastAck <= lastSequence /\ lastSequence >= -1
        /\ lastSequence \in Int /\ sequence \in Nat
    <3>1. lastAck \in -1..lastSequence /\ lastSequence \in Nat \cup {-1} /\ sequence \in Nat
      BY Numbers, TypeParts DEF BrowserType
    <3>. QED BY <3>1
  <2>2. n \in 0..(sequence - 1) /\ n > lastAck /\ ~ n <= lastSequence
    BY <1>3, <2>1
  <2>3. ~ sequence > BufferLimit BY <2>1
  <2>4. n \in buffered BY <2>2, <2>3 DEF KeptInv
  <2>. QED BY <1>1, <2>2, <2>4 DEF Unacknowledged
<1>4. /\ Len(r) = N + 1 /\ r[1].type = "resume_session_connection"
      /\ \A i \in 1..N : r[1 + i].type = "frame" /\ r[1 + i].sequence = Resend[i]
      /\ r \in Seq(Messages)
  <2>1. /\ FrameMessages \in Seq(UpItems) /\ Len(FrameMessages) = N
        /\ \A i \in 1..N : /\ FrameMessages[i].type = "frame"
                           /\ FrameMessages[i].sequence = Resend[i]
        /\ r = Join(<<b>>, FrameMessages) /\ r \in Seq(UpItems)
    BY FirstMessagesItems
  <2>2. FrameMessages \in Seq(Messages) /\ r \in Seq(Messages)
    BY <2>1, SeqGrows DEF UpItems
  <2>3. b \in Messages /\ b.type = "resume_session_connection"
    BY MessageItems DEF Kinds
  <2> HIDE DEF b, r
  <2> DEFINE f == FrameMessages
  <2>4. f \in Seq(Messages) /\ Len(f) = N /\ r = Join(<<b>>, f) BY <2>1, <2>2
  <2> HIDE DEF f
  <2>5. /\ Len(Join(<<b>>, f)) = Len(f) + 1 /\ Join(<<b>>, f)[1] = b
        /\ \A i \in 1..Len(f) : Join(<<b>>, f)[1 + i] = f[i]
    BY <2>3, <2>4, JoinOne
  <2>6. Len(r) = N + 1 /\ r[1] = b /\ \A i \in 1..N : r[1 + i] = f[i]
    BY <2>4, <2>5
  <2>. QED BY <2>1, <2>2, <2>3, <2>6 DEF f
<1>5. /\ Len(t) = Len(q) + Len(r) /\ Len(q) \in Nat
      /\ \A i \in 1..Len(r) : t[Len(q) + i] = r[i]
  <2>1. r \in Seq(Messages) BY <1>4
  <2> HIDE DEF r
  <2>. QED BY <2>1, JoinItems
<1> HIDE DEF r, t, N, b
<1>6. \A i \in 1..N : /\ Len(q) + i + 1 \in 1..Len(t)
                      /\ t[Len(q) + i + 1].type = "frame"
                      /\ t[Len(q) + i + 1].sequence = Resend[i]
  <2>1. ASSUME NEW i \in 1..N
        PROVE  /\ Len(q) + i + 1 \in 1..Len(t)
               /\ t[Len(q) + i + 1] = r[1 + i]
    <3>1. 1 + i \in 1..Len(r) /\ Len(q) + (1 + i) = Len(q) + i + 1
          /\ Len(q) + i + 1 \in 1..Len(t)
      BY <1>1, <1>4, <1>5
    <3>. QED BY <1>5, <3>1
  <2>. QED BY <1>4, <2>1
<1>7. \A n \in Int : n >= n OBVIOUS
<1>8. ASSUME NEW i \in 1..Len(r), r[i].type = "frame"
      PROVE  Covered(t, Len(q) + i - 1, r[i].sequence - 1, lastSequence, fresh)
  <2> DEFINE s == r[i].sequence
  <2>1. i # 1 BY <1>4, <1>8
  <2>2. i - 1 \in 1..N /\ 1 + (i - 1) = i BY <1>1, <1>4, <2>1
  <2>3. s = Resend[i - 1] /\ s \in Unacknowledged BY <1>1, <1>4, <2>2
  <2>4. s \in Int /\ s <= sequence - 1 /\ s - 1 \in Int /\ lastSequence \in Int
        /\ sequence \in Nat
    BY <1>2, <2>3, Numbers, SMTT(30)
  <2> HIDE DEF s
  <2>5. CASE s - 1 <= lastSequence BY <2>5 DEF Covered, s
  <2>6. CASE s - 1 > lastSequence
    <3>1. s - 1 <= sequence - 1 BY <2>4
    <3>2. PICK x \in 1..N : Resend[x] = s - 1 BY <1>3, <2>4, <2>6, <3>1
    <3>3. x < i - 1
      <4>1. CASE x = i - 1 BY <2>3, <2>4, <3>2, <4>1
      <4>2. CASE i - 1 < x
        <5>1. s < s - 1 BY <1>1, <2>2, <2>3, <3>2, <4>2
        <5>. QED BY <2>4, <5>1
      <4>. QED BY <1>1, <2>2, <4>1, <4>2
    <3>4. Len(q) + x + 1 \in 1..(Len(q) + i - 1) BY <1>1, <1>5, <2>2, <3>3
    <3>5. /\ t[Len(q) + x + 1].type = "frame"
          /\ t[Len(q) + x + 1].sequence >= s - 1
      BY <1>6, <1>7, <2>4, <3>2
    <3>. QED BY <3>4, <3>5 DEF Covered, s
  <2>. QED BY <2>4, <2>5, <2>6
<1>9. Covered(t, Len(t), sequence - 1, lastSequence, fresh)
  <2>1. sequence - 1 \in Int /\ lastSequence \in Int /\ sequence - 1 <= sequence - 1
    <3>1. sequence \in Int /\ lastSequence \in Int BY Numbers
    <3>. QED BY <3>1
  <2>2. CASE sequence - 1 <= lastSequence BY <2>2 DEF Covered
  <2>3. CASE sequence - 1 > lastSequence
    <3>1. PICK x \in 1..N : Resend[x] = sequence - 1 BY <1>3, <2>1, <2>3
    <3>2. /\ Len(q) + x + 1 \in 1..Len(t) /\ t[Len(q) + x + 1].type = "frame"
          /\ t[Len(q) + x + 1].sequence >= sequence - 1
      BY <1>6, <1>7, <2>1, <3>1
    <3>. QED BY <3>2 DEF Covered
  <2>. QED BY <2>1, <2>2, <2>3
<1>. QED BY <1>8, <1>9 DEF r, t

(* A connection opens, and the current one sends its first messages.       *)
LEMMA GapOpens ==
  ASSUME TypeInv, KeptInv, EndsInv, StartInv, NoneInv, FirstInv, RecInv, TypeInv',
         sequence <= BufferLimit, NEW l \in Conn, Opens(l), NEW k \in Conn, GapAt(k)
  PROVE  GapAt(k)'
<1> DEFINE q == up[k]
           F == Fresh
           last == lastSequence
           n == sequence - 1
           r == FirstMessages(l)
<1>1. UNCHANGED <<sequence, lastSequence, opened, socket, cut>> BY DEF Opens
<1>2. /\ Fresh' = Fresh /\ Counts(k)' = Counts(k)
      /\ sequence' = sequence /\ lastSequence' = lastSequence
  BY <1>1 DEF Fresh, Counts
<1>3. q \in Seq(Messages) BY UpMessages
<1>4. \/ up'[k] = q /\ ~Current(k)'
      \/ k = socket /\ up'[k] = Join(q, r)
  <2>1. socket \in 0..Connections /\ DOMAIN up = Conn
    BY TypeParts DEF Queues, BrowserType
  <2>2. up' = IF readyState'[socket] = "open" /\ ~cut[socket]
              THEN [up EXCEPT ![socket] = Join(up[socket], FirstMessages(l))] ELSE up
    BY DEF Opens, Join
  <2>3. CASE k = socket /\ readyState'[socket] = "open" /\ ~cut[socket]
    BY <2>1, <2>2, <2>3
  <2>4. CASE ~(k = socket /\ readyState'[socket] = "open" /\ ~cut[socket])
    <3>1. up'[k] = q BY <2>1, <2>2, <2>4
    <3>2. ~Current(k)' BY <1>1, <2>4 DEF Current
    <3>. QED BY <3>1, <3>2
  <2>. QED BY <2>3, <2>4
<1>5. CASE up'[k] = q /\ ~Current(k)'
  <2>1. Current(k)' => Current(k) BY <1>5
  <2>. QED BY <1>1, <1>5, <2>1, GapSame
<1>6. CASE k = socket /\ up'[k] = Join(q, r) /\ l = 1
  <2>1. opened = 1 /\ session = "none" /\ up[1] = <<>> BY <1>6, FirstOpens
  <2>2. k = 1 /\ q = <<>> BY <1>6, <2>1, Numbers
  <2>3. lastSequence < 0 /\ Fresh
    BY <2>1, Numbers DEF NoneInv, RecInv, Fresh
  <2>4. r \in Seq(Messages)
    <3>1. r \in Seq(UpItems) BY FirstMessagesItems
    <3>. QED BY <3>1, SeqGrows DEF UpItems
  <2>5. Types(r) = {"start_session"} BY <1>6, TypesOfFirst
  <2>6. Types(up'[k]) = {"start_session"}
    <3>1. Types(Join(q, r)) = Types(q) \cup Types(r)
      <4> HIDE DEF q, r
      <4>. QED BY <1>3, <2>4, TypesJoin
    <3>. QED BY <1>6, <2>2, <2>5, <3>1, TypesEmpty
  <2>7. \A i \in 1..Len(up'[k]) : up'[k][i].type # "frame" BY <2>6 DEF Types
  <2>8. Covered(up'[k], Len(up'[k]), sequence' - 1, lastSequence', Fresh')
    BY <1>2, <2>3, <2>7 DEF Covered
  <2>9. /\ Follows(up'[k], lastSequence', Fresh')
        /\ EndFollows(up'[k], sequence' - 1, lastSequence', Fresh')
    BY <2>6, FollowsEmpty
  <2>. QED BY <2>8, <2>9 DEF GapAt
<1>7. CASE up'[k] = Join(q, r) /\ l # 1
  <2>1. r \in Seq(Messages)
    <3>1. r \in Seq(UpItems) BY FirstMessagesItems
    <3>. QED BY <3>1, SeqGrows DEF UpItems
  <2>2. "end_session" \notin Types(r) BY <1>7, TypesOfFirst
  <2>3. /\ \A i \in 1..Len(r) : r[i].type = "frame" =>
              Covered(Join(q, r), Len(q) + i - 1, r[i].sequence - 1, last, F)
        /\ Covered(Join(q, r), Len(Join(q, r)), n, last, F)
    BY <1>3, <1>7, ResendCovers
  <2>4. \A i \in 1..Len(r) : r[i].type # "end_session" BY <2>2 DEF Types
  <2>5. (Counts(k) => Follows(q, last, F)) /\ EndFollows(q, n, last, F) BY DEF GapAt
  <2>6. up'[k] = Join(q, r) BY <1>7
  <2>7. Fresh' = F /\ sequence' - 1 = n /\ lastSequence' = last BY <1>2
  <2> HIDE DEF q, r, n, last, F
  <2>8. Counts(k) => Follows(Join(q, r), last, F) BY <1>3, <2>1, <2>3, <2>5, FollowsJoin
  <2>9. EndFollows(Join(q, r), n, last, F) BY <1>3, <2>1, <2>4, <2>5, FollowsJoin
  <2>. QED BY <1>2, <2>3, <2>6, <2>7, <2>8, <2>9 DEF GapAt
<1>. QED BY <1>4, <1>5, <1>6, <1>7

(* Another connection has brought a frame.                                 *)
LEMMA GapKept ==
  ASSUME TypeInv, TypeInv', NEW k \in Conn, GapAt(k), up'[k] = up[k],
         Current(k)' => Current(k), UNCHANGED <<sequence, opened>>,
         lastSequence <= lastSequence', ~Fresh
  PROVE  GapAt(k)'
<1> DEFINE q == up[k]
           F == Fresh
           G == Fresh'
           last == lastSequence
           last2 == lastSequence'
           n == sequence - 1
<1>1. last \in Int /\ last2 \in Int /\ last <= last2 /\ n \in Int
  BY DEF TypeInv, TypeOK
<1>2. \A i \in 1..Len(q) : q[i].sequence - 1 \in Int
  <2>1. q \in Seq(Messages) BY UpMessages
  <2>2. \A i \in 1..Len(q) : q[i] \in Messages BY <2>1, ElementOfSeq
  <2>3. \A x \in Messages : x.sequence \in Int BY DEF Messages
  <2>4. \A i \in 1..Len(q) : q[i].sequence \in Int BY <2>2, <2>3
  <2>. QED BY <2>4
<1>3. (F => G) /\ sequence' - 1 = n /\ up'[k] = q /\ Counts(k)' = Counts(k)
  BY DEF Counts
<1>4. /\ Counts(k) => Follows(q, last, F)
      /\ EndFollows(q, n, last, F)
      /\ Current(k) => Covered(q, Len(q), n, last, F)
  BY DEF GapAt
<1> HIDE DEF q, F, G, last, last2, n
<1>5. ASSUME NEW m, NEW x \in Int, Covered(q, m, x, last, F)
      PROVE  Covered(q, m, x, last2, G)
  BY <1>1, <1>3, <1>5, CoveredGrows
<1>6. Follows(q, last, F) => Follows(q, last2, G) BY <1>2, <1>5 DEF Follows
<1>7. EndFollows(q, n, last, F) => EndFollows(q, n, last2, G)
  BY <1>1, <1>5 DEF EndFollows
<1>8. Current(k)' => Covered(q, Len(q), n, last2, G) BY <1>1, <1>4, <1>5
<1>9. /\ Counts(k)' => Follows(q, last2, G)
      /\ EndFollows(q, n, last2, G)
  BY <1>3, <1>4, <1>6, <1>7
<1>. QED BY <1>3, <1>8, <1>9 DEF GapAt, G, last2

LEMMA GapAccepts ==
  ASSUME TypeInv, TypeInv', EndsInv, NEW l \in Conn, Accept(l) \/ AcceptRaises(l),
         NEW k \in Conn, GapAt(k), Counts(k), Current(k)' => Current(k)
  PROVE  GapAt(k)'
<1>1. /\ up[l] # <<>> /\ Head(up[l]).type = "frame" /\ Take(l)
      /\ lastSequence' = Head(up[l]).sequence /\ lastSequence' > lastSequence
      /\ UNCHANGED browser
  BY Accepted
<1>2. UNCHANGED <<sequence, opened, socket>> BY <1>1 DEF browser
<1>3. /\ \A j \in Conn : j # l => up'[j] = up[j]
      /\ up'[l] = Tail(up[l])
  BY <1>1, TakeUp
<1>4. /\ lastSequence <= lastSequence' /\ Head(up[l]).sequence <= lastSequence'
  <2>1. lastSequence' \in 0..(sequence - 1) /\ lastSequence \in Nat \cup {-1}
    BY Accepted
  <2>2. sequence \in Nat BY Numbers
  <2>. QED BY <1>1, <2>1, <2>2
<1>5. CASE k = l BY <1>1, <1>2, <1>3, <1>4, <1>5, GapTaken
<1>6. CASE k # l /\ opened <= 1
  <2>1. l = 1 /\ opened = 1
    <3>1. l <= opened BY <1>1, Used
    <3>. QED BY <1>6, <3>1, Numbers
  <2>2. ~ k <= opened BY <1>6, <2>1, Numbers
  <2>3. up[k] = <<>> BY <2>2, Used
  <2>4. up'[k] = <<>> BY <1>3, <1>6, <2>3
  <2>5. ~Current(k)' BY <1>2, <1>6, <2>1, Numbers DEF Current
  <2>. QED BY <2>4, <2>5, GapEmpty
<1>7. CASE k # l /\ ~ opened <= 1
  <2>1. ~Fresh /\ up'[k] = up[k] BY <1>3, <1>7 DEF Fresh
  <2>. QED BY <1>2, <1>4, <2>1, GapKept
<1>. QED BY <1>5, <1>6, <1>7

(* The message that is served next.                                        *)
LEMMA FrontFollows ==
  ASSUME TypeInv, NEW k \in Conn, GapAt(k), Counts(k), Serving(k, "frame")
  PROVE  lastSequence < 0 \/ Head(up[k]).sequence <= lastSequence + 1
<1>1. up[k] \in Seq(Messages) /\ up[k] # <<>> /\ Head(up[k]).type = "frame"
  BY UpMessages DEF Serving
<1>2. 1 \in 1..Len(up[k]) /\ Head(up[k]) = up[k][1] BY <1>1
<1>3. up[k][1] \in Messages BY <1>1, <1>2, ElementOfSeq
<1>4. Head(up[k]).sequence \in Int BY <1>2, <1>3 DEF Messages
<1>5. Follows(up[k], lastSequence, Fresh) BY DEF GapAt
<1>6. Covered(up[k], 1 - 1, up[k][1].sequence - 1, lastSequence, Fresh)
  BY <1>1, <1>2, <1>5 DEF Follows
<1>7. up[k][1].sequence - 1 <= lastSequence \/ Fresh BY <1>6 DEF Covered
<1>8. lastSequence \in Int BY Numbers
<1>. QED BY <1>2, <1>4, <1>7, <1>8 DEF Fresh

LEMMA GapServes ==
  ASSUME TypeInv, TypeInv', EndsInv, NoneInv, ~paused, session # "closed",
         NEW k \in Conn, GapAt(k), Counts(k), Current(k)' => Current(k),
         Takes(k), ~Accept(k), ~AcceptRaises(k)
  PROVE  GapAt(k)'
<1>1. /\ UNCHANGED <<sequence, opened, lastSequence>> /\ up[k] # <<>>
      /\ up'[k] = Tail(up[k])
  BY DEF Takes, ServeStart, AcceptDuplicate, Refuse, Control, ServeEnd, EndRaises, browser
<1>2. ASSUME Head(up[k]).type = "frame" PROVE Head(up[k]).sequence <= lastSequence
  <2>1. AcceptDuplicate(k) \/ Refuse(k)
    BY <1>2 DEF Takes, ServeStart, Control, ServeEnd, EndRaises, Serving
  <2>2. CASE AcceptDuplicate(k) BY <2>2 DEF AcceptDuplicate
  <2>3. CASE Refuse(k)
    <3>1. Serving(k, "frame") BY <1>2, <2>3 DEF Refuse, Refused, Accepting, Serving
    <3>2. session # "none" BY <3>1, OnlyStartWaits
    <3>3. session = "open" BY <3>2 DEF TypeInv, TypeOK
    <3>4. Accepting(k) BY <3>1, <3>3 DEF Accepting
    <3>5. lastSequence >= 0 /\ Head(up[k]).sequence # lastSequence + 1
          /\ Head(up[k]).sequence > lastSequence
      <4>1. ~ lastSequence < 0 /\ Head(up[k]).sequence # lastSequence + 1
            /\ Head(up[k]).sequence > lastSequence
        BY <1>2, <2>3, <3>2, <3>4 DEF Refuse, Refused, Continues, Serving
      <4>. QED BY <4>1, Numbers
    <3>6. Head(up[k]).sequence <= lastSequence + 1
      <4>1. ~ lastSequence < 0 BY <3>5, Numbers
      <4>. QED BY <3>1, <4>1, FrontFollows
    <3>7. Head(up[k]) \in Messages BY <1>1, UpMessages, TypesTail
    <3>8. Head(up[k]).sequence \in Int /\ lastSequence \in Int
      BY <3>7, Numbers DEF Messages
    <3>. QED BY <3>5, <3>6, <3>8
  <2>. QED BY <2>1, <2>2, <2>3
<1>3. lastSequence <= lastSequence' BY <1>1 DEF TypeInv, TypeOK
<1>. QED BY <1>1, <1>2, <1>3, GapTaken

LEMMA OnlyCaptureNumbers ==
  ASSUME [Next]_vars, ~Capture
  PROVE  sequence' = sequence
<1>1. CASE \/ Start \/ StartTimeout \/ ClickPause \/ ClickResume \/ End \/ Leave \/ Unmount
           \/ Reconnect \/ UNCHANGED vars
  BY <1>1 DEF Start, StartTimeout, ClickPause, ClickResume, End, Leave, Unmount, Reconnect,
     browser, vars
<1>2. ASSUME NEW k \in Conn, Opens(k) \/ OpenFails(k) \/ Closes(k) \/ Receive(k) \/ Drop(k)
      PROVE  sequence' = sequence
  BY <1>2 DEF Opens, OpenFails, Closes, Receive, Drop, SessionStarted, AudioAck,
     SessionPausedOrResumed, SessionEnded, ErrorEvent, browser
<1>3. ASSUME NEW k \in Conn, Serve(k) \/ OpenSessionFails(k) \/ AcceptRaises(k)
                             \/ EndRaises(k) \/ AnalysisFails(k)
      PROVE  sequence' = sequence
  BY <1>3 DEF Serve, ServeStart, OpenSession, Accept, AcceptDuplicate, Refuse, Control,
     ServeEnd, CreateAnalysis, Disconnected, OpenSessionFails, AcceptRaises, EndRaises,
     AnalysisFails, browser
<1>. QED BY <1>1, <1>2, <1>3 DEF Next

LEMMA GapStep ==
  ASSUME TypeInv, RecInv, KeptInv, EndsInv, StartInv, NoneInv, FirstInv, WayInv,
         PauseInv, GapInv, EndInv, ClosedInv, [Next]_vars
  PROVE  GapInv'
<1> SUFFICES ASSUME Quiet', session' # "closed", NEW k \in Conn
             PROVE  GapAt(k)'
  BY DEF GapInv
<1>1. /\ clicks = 0 /\ sequence <= BufferLimit /\ clicks' = 0
      /\ ~paused /\ session # "closed" /\ GapAt(k)
  BY QuietBefore
<1>2. TypeInv' BY TypeStep
<1>3. EndInv' BY EndStep
<1>4. CASE ~Counts(k)' BY <1>1, <1>2, <1>3, <1>4, GapLost
<1>5. CASE Start \/ Reconnect BY <1>1, <1>3, <1>5, GapAnother
<1>6. CASE Capture BY <1>1, <1>3, <1>6, GapCaptured
<1>7. CASE End BY <1>1, <1>7, GapEnds
<1>8. ASSUME NEW l \in Conn, Opens(l) PROVE GapAt(k)'
  BY <1>1, <1>2, <1>8, GapOpens
<1>9. ASSUME Counts(k)', ~(Start \/ Reconnect), ~Capture, ~End, ~ \E l \in Conn : Opens(l)
      PROVE  GapAt(k)'
  <2>1. opened' = opened BY <1>9, OpenedChanges
  <2>2. Current(k)' => Current(k) BY <1>9, <2>1, CurrentWas
  <2>3. Counts(k) BY <1>9, <2>1 DEF Counts
  <2>4. sequence' = sequence BY <1>9, OnlyCaptureNumbers
  <2>5. ASSUME NEW l \in Conn, Accept(l) \/ AcceptRaises(l) PROVE GapAt(k)'
    BY <1>1, <1>2, <2>2, <2>3, <2>5, GapAccepts
  <2>6. ASSUME ~ \E l \in Conn : Accept(l) \/ AcceptRaises(l) PROVE GapAt(k)'
    <3>1. lastSequence' = lastSequence BY <2>6, OnlyAcceptRecords
    <3>2. CASE up'[k] = up[k] BY <1>1, <2>1, <2>2, <2>4, <3>1, <3>2, GapSame
    <3>3. CASE Takes(k) BY <1>1, <1>2, <2>2, <2>3, <2>6, <3>3, GapServes
    <3>4. CASE Disconnected(k) /\ up'[k] = <<>>
      <4>1. cut'[k] BY <3>4, CutGrows DEF Disconnected
      <4>. QED BY <3>4, <4>1, GapEmpty DEF Current
    <3>5. CASE ClickPause \/ ClickResume
      <4>1. clicks' = clicks + 1 BY <3>5 DEF ClickPause, ClickResume
      <4>. QED BY <1>1, <4>1
    <3>. QED BY <1>9, <3>2, <3>3, <3>4, <3>5, UpChanges
  <2>. QED BY <2>5, <2>6
<1>. QED BY <1>4, <1>5, <1>6, <1>7, <1>8, <1>9

-----------------------------------------------------------------------------
(* The theorems.                                                           *)

LEMMA IInvInit == ASSUME Init PROVE IInv
<1>1. TypeInv BY TypeInit
<1>2. \A k \in Conn : /\ up[k] = <<>> /\ down[k] = <<>> /\ handler[k] = "none"
                      /\ readyState[k] = "none" /\ cut[k] = FALSE
  BY DEF Init
<1>3. 1 \in Conn BY Numbers, <1>1
<1>4. Types(<<>>) = {} /\ Later(<<>>) = {} BY TypesEmpty
<1>5. RecInv BY DEF Init, RecInv
<1>6. KeptInv BY DEF Init, KeptInv
<1>7. EndsInv BY <1>1, <1>2, Numbers DEF Init, EndsInv
<1>8. StartInv /\ NoneInv /\ FirstInv /\ WayInv /\ PauseInv /\ EndInv /\ ClosedInv
  <2>1. /\ opened = 0 /\ timers = 0 /\ session = "none" /\ status = "idle" /\ ~paused
        /\ recording = <<>> /\ ~capturing
    BY DEF Init
  <2>2. StartInv BY <1>2, <1>3, <1>4, <2>1 DEF StartInv
  <2>3. NoneInv BY <1>2, <1>3, <2>1 DEF NoneInv, Talking
  <2>4. FirstInv BY <2>1 DEF FirstInv
  <2>5. WayInv BY <1>2, <1>3, <1>4 DEF WayInv
  <2>6. PauseInv BY <1>2, <1>4, <2>1 DEF PauseInv
  <2>7. EndInv BY <1>2, <1>4, <2>1 DEF EndInv
  <2>8. ClosedInv BY <1>2, <1>4, <2>1 DEF ClosedInv
  <2>. QED BY <2>2, <2>3, <2>4, <2>5, <2>6, <2>7, <2>8
<1>9. GapInv
  <2>1. ASSUME NEW k \in Conn PROVE GapAt(k)
    <3>1. Follows(up[k], lastSequence, Fresh)
          /\ EndFollows(up[k], sequence - 1, lastSequence, Fresh)
      BY <1>2, FollowsEmpty
    <3>2. ~Current(k) BY <1>2 DEF Current
    <3>. QED BY <3>1, <3>2 DEF GapAt
  <2>. QED BY <2>1 DEF GapInv
<1>. QED BY <1>1, <1>5, <1>6, <1>7, <1>8, <1>9 DEF IInv

LEMMA IInvStep == ASSUME IInv, [Next]_vars PROVE IInv'
<1>1. /\ TypeInv /\ RecInv /\ KeptInv /\ EndsInv /\ StartInv /\ NoneInv
      /\ FirstInv /\ WayInv /\ PauseInv /\ GapInv /\ EndInv /\ ClosedInv
  BY DEF IInv
<1>2. TypeInv' /\ RecInv' /\ KeptInv' /\ EndsInv'
  BY <1>1, TypeStep, RecStep, KeptStep, EndsStep
<1>3. StartInv' BY <1>1, StartStep
<1>4. NoneInv' BY <1>1, NoneStep
<1>5. FirstInv' BY <1>1, FirstStep
<1>6. WayInv' BY <1>1, WayStep
<1>7. PauseInv' BY <1>1, PauseStep
<1>8. EndInv' BY <1>1, EndStep
<1>9. ClosedInv' BY <1>1, ClosedStep
<1>10. GapInv' BY <1>1, GapStep
<1>. QED BY <1>2, <1>3, <1>4, <1>5, <1>6, <1>7, <1>8, <1>9, <1>10 DEF IInv

(* What the call's invariants rest on is kept by every step of the         *)
(* browser, of the network and of the handlers.                            *)
THEOREM Invariance == Spec => []IInv
<1>1. Init => IInv BY IInvInit
<1>2. IInv /\ [Next]_vars => IInv' BY IInvStep
<1>. QED BY <1>1, <1>2, PTL DEF Spec

LEMMA NoGapInv == ASSUME IInv PROVE NoGap
<1> SUFFICES ASSUME clicks = 0, sequence <= BufferLimit,
                    NEW k \in Conn, Accepting(k), ~cut[k]
             PROVE  lastSequence < 0 \/ Head(up[k]).sequence <= lastSequence + 1
  BY DEF NoGap
<1>1. TypeInv /\ GapInv /\ FirstInv /\ EndsInv BY DEF IInv
<1>2. Serving(k, "frame") /\ session # "closed" BY DEF Accepting
<1>3. GapAt(k) BY <1>1, <1>2 DEF GapInv, Quiet
<1>4. Counts(k)
  <2>1. SUFFICES ASSUME k = 1, ~ opened <= 1 PROVE FALSE
    BY <1>1, Numbers DEF Counts
  <2>2. opened >= 2 BY <1>1, <2>1, Numbers
  <2>3. readyState[1] = "closed" BY <1>1, <2>2 DEF FirstInv
  <2>. QED BY <1>1, <2>1, <2>3 DEF EndsInv
<1>. QED BY <1>1, <1>2, <1>3, <1>4, FrontFollows

(* The recording is a stretch of the call, each frame once and in order,   *)
(* and no connection that is up is told of a gap, although connections     *)
(* overlap and each of them sends again what was not acknowledged.         *)
THEOREM RecordingIsAStretch == Spec => []RecordingInv
<1>1. IInv => RecordingInv
  <2> SUFFICES ASSUME IInv PROVE RecordingInv OBVIOUS
  <2>1. TypeInv /\ RecInv BY DEF IInv
  <2>2. TypeOK BY <2>1 DEF TypeInv
  <2>3. RecordingIsWhole BY <2>1, RecordingIsWholeInv
  <2>. QED BY <2>2, <2>3, NoGapInv DEF RecordingInv
<1>. QED BY <1>1, Invariance, PTL

(* The browser keeps every frame until it is in the recording, unless a    *)
(* full buffer pushed it out: an acknowledgement never goes beyond what    *)
(* the server has, whichever connection brings it.                         *)
THEOREM FramesAreKept == Spec => []NoFrameIsForgotten
<1>1. IInv => NoFrameIsForgotten BY NoFrameIsForgottenInv DEF IInv
<1>. QED BY <1>1, Invariance, PTL

LEMMA EndedIsCompleteInv == ASSUME IInv PROVE EndedIsComplete
<1> SUFFICES ASSUME status = "ended"
             PROVE  /\ jobs > 0
                    /\ recording # <<>> /\ clicks = 0 /\ sequence <= BufferLimit =>
                          \A n \in Head(recording)..(sequence - 1) : n \in Recorded
  BY DEF EndedIsComplete
<1>1. TypeInv /\ RecInv /\ ClosedInv BY DEF IInv
<1>2. session = "closed" /\ jobs > 0 BY <1>1 DEF ClosedInv
<1>3. ASSUME recording # <<>>, clicks = 0, sequence <= BufferLimit,
             NEW n \in Head(recording)..(sequence - 1)
      PROVE  n \in Recorded
  <2>1. /\ Head(recording) \in Nat /\ lastSequence \in Nat /\ sequence \in Nat
        /\ Recorded = Head(recording)..lastSequence
    BY <1>1, <1>3, RecordedIs, Numbers
  <2>2. lastSequence < 0 \/ lastSequence >= sequence - 1
    BY <1>1, <1>2, <1>3 DEF ClosedInv, Quiet
  <2>. QED BY <2>1, <2>2
<1>. QED BY <1>2, <1>3

(* When the page says that the call has ended, its analysis exists, and    *)
(* has every frame captured since the first one that was recorded.         *)
THEOREM EndedCallIsComplete == Spec => []EndedIsComplete
<1>1. IInv => EndedIsComplete BY EndedIsCompleteInv
<1>. QED BY <1>1, Invariance, PTL
=============================================================================
