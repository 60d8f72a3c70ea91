---------------------------- MODULE TtsJobsProofs ----------------------------
(***************************************************************************)
(* Theorems about TtsJobs for every set of jobs, either queue, every set   *)
(* of faults and all bounds.                                               *)
(***************************************************************************)
EXTENDS TtsJobs, SubsequencesProofs

USE JobsAssumption, DurableAssumption, BoundsAssumption

(* The names of groups of variables, and of single assignments.            *)
USE DEF rows, worker, cosyvoice, bounds, Goto

(* The counters of messages, timers and requests.                          *)
LEMMA PlusMinus ==
  ASSUME NEW f \in [Jobs -> Nat], NEW j \in Jobs
  PROVE  /\ Plus(f, j) \in [Jobs -> Nat]
         /\ Plus(f, j)[j] > 0
         /\ \A k \in Jobs : f[k] > 0 => Plus(f, j)[k] > 0
         /\ f[j] > 0 => Minus(f, j) \in [Jobs -> Nat]
         /\ \A k \in Jobs : k # j => Minus(f, j)[k] = f[k]
BY DEF Plus, Minus

LEMMA MinusOther ==
  ASSUME NEW f \in [Jobs -> Nat], NEW j \in Jobs, NEW k \in Jobs, k # j
  PROVE  Minus(f, j)[k] = f[k]
BY DEF Minus

LEMMA StatusType ==
  ASSUME TypeOK, NEW j \in Jobs, NEW s \in Statuses, SetStatus(j, s)
  PROVE  /\ status' \in [Jobs -> Statuses]
         /\ status'[j] = s
         /\ \A k \in Jobs : k # j => status'[k] = status[k]
BY DEF TypeOK, SetStatus

(* A named step for what a stutter leaves alone.                           *)
LEMMA StutterInv == ASSUME IInv, UNCHANGED vars PROVE IInv'
BY DEF IInv, TypeOK, DispatcherInv, NoLostJob, OpenInv, HasToken, InQueue,
       WorksOn, vars

LEMMA InitInv == Init => IInv
<1>. SUFFICES ASSUME Init PROVE IInv OBVIOUS
<1>1. TypeOK BY DEF Init, TypeOK, Statuses, Pc
<1>2. DispatcherInv BY DEF Init, DispatcherInv, HoldingPc, WorkPc
<1>3. NoLostJob BY DEF Init, NoLostJob, Unfinished
<1>4. OpenInv BY DEF Init, OpenInv, WorkPc
<1>. QED BY <1>1, <1>2, <1>3, <1>4 DEF IInv

-----------------------------------------------------------------------------
(* The queue                                                               *)

(* A message put into the queue is in it, with all that were there.        *)
LEMMA AppendInQueue ==
  ASSUME TypeOK, NEW j \in Jobs, queue' = Append(queue, j)
  PROVE  /\ queue' \in Seq(Jobs)
         /\ InQueue(j)'
         /\ \A k \in Jobs : InQueue(k) => InQueue(k)'
<1>1. queue \in Seq(Jobs) BY DEF TypeOK
<1>2. /\ queue' \in Seq(Jobs)
      /\ Len(queue') = Len(queue) + 1
      /\ queue'[Len(queue) + 1] = j
      /\ \A i \in 1..Len(queue) : queue'[i] = queue[i]
  BY <1>1, AppendProperties
<1>3. InQueue(j)' BY <1>1, <1>2 DEF InQueue
<1>4. ASSUME NEW k \in Jobs, InQueue(k) PROVE InQueue(k)'
  <2>1. PICK i \in 1..Len(queue) : queue[i] = k BY <1>1, <1>4 DEF InQueue
  <2>2. i \in 1..Len(queue') /\ queue'[i] = k BY <1>1, <1>2, <2>1
  <2>. QED BY <1>2, <2>2 DEF InQueue
<1>. QED BY <1>2, <1>3, <1>4

(* Taking the first message leaves every job in the queue but that one's.  *)
LEMMA TailInQueue ==
  ASSUME TypeOK, queue # <<>>, queue' = Tail(queue)
  PROVE  /\ Head(queue) \in Jobs
         /\ queue' \in Seq(Jobs)
         /\ \A k \in Jobs : InQueue(k) /\ k # Head(queue) => InQueue(k)'
<1>1. queue \in Seq(Jobs) BY DEF TypeOK
<1>2. Head(queue) \in Jobs /\ queue' \in Seq(Jobs)
  BY <1>1, HeadTailProperties
<1>3. ASSUME NEW k \in Jobs, InQueue(k), k # Head(queue) PROVE InQueue(k)'
  <2>1. PICK i \in 1..Len(queue) : queue[i] = k BY <1>1, <1>3 DEF InQueue
  <2>2. i # 1 BY <1>1, <1>3, <2>1
  <2>3. i - 1 \in 1..Len(queue') /\ queue'[i - 1] = k BY <1>1, <2>1, <2>2
  <2>4. i - 1 \in DOMAIN queue' BY <1>2, <2>3
  <2>. QED BY <2>3, <2>4, Zenon DEF InQueue
<1>. QED BY <1>2, <1>3

(* A listing of the queued jobs put behind the queue brings in all of them. *)
LEMMA ListingInQueue ==
  ASSUME TypeOK, NEW S \in SUBSET Jobs, NEW s \in Listings(S),
         queue' = queue \o s
  PROVE  queue' \in Seq(Jobs) /\ \A k \in S : InQueue(k)'
<1>1. Cardinality(S) \in Nat BY FS_Subset, FS_CardinalityType
<1>2. s \in Seq(Jobs) /\ Len(s) = Cardinality(S) /\ DOMAIN s = 1..Len(s)
  <2>1. s \in [1..Cardinality(S) -> S] BY DEF Listings
  <2>2. s \in [1..Cardinality(S) -> Jobs] BY <2>1
  <2>. QED BY <1>1, <2>2
<1>3. queue \in Seq(Jobs) BY DEF TypeOK
<1>4. queue' \in Seq(Jobs) /\ Len(queue') = Len(queue) + Len(s)
  BY <1>2, <1>3, ConcatProperties
<1>5. ASSUME NEW k \in S PROVE InQueue(k)'
  <2>1. PICK i \in 1..Len(s) : s[i] = k BY <1>2 DEF Listings
  <2>2. /\ Len(queue) + i \in 1..Len(queue')
        /\ queue'[Len(queue) + i] = k
    BY <1>2, <1>3, <1>4, <2>1, ConcatProperties
  <2>. QED BY <1>4, <2>2 DEF InQueue
<1>. QED BY <1>4, <1>5

-----------------------------------------------------------------------------
(* Every action preserves the types, and what the dispatcher holds.        *)
LEMMA NextTypeOK ==
  ASSUME TypeOK, DispatcherInv, Next
  PROVE  TypeOK'
<1> USE DEF TypeOK, Pc, HoldingPc, WorkPc, DispatcherInv
<1>0. {"queued", "running", "completed", "failed"} \subseteq Statuses
  BY DEF Statuses
<1>1. ASSUME NEW j \in Jobs, CreateJob(j) PROVE TypeOK'
  BY <1>0, <1>1, StatusType DEF CreateJob
<1>2. ASSUME NEW j \in Jobs, Enqueue(j) PROVE TypeOK'
  BY <1>2, AppendInQueue DEF Enqueue
<1>3. ASSUME NEW j \in Jobs, TimerFires(j) PROVE TypeOK'
  <2>1. timers' \in [Jobs -> Nat] BY <1>3, PlusMinus DEF TimerFires
  <2>2. queue' \in Seq(Jobs) BY <1>3, AppendInQueue DEF TimerFires
  <2>. QED BY <1>3, <2>1, <2>2 DEF TimerFires
<1>4. ASSUME NEW j \in Jobs, Deliver(j) PROVE TypeOK'
  <2>0. pending[j] > 0 => Minus(pending, j) \in [Jobs -> Nat] BY PlusMinus
  <2>1. pending' \in [Jobs -> Nat] BY <1>4, <2>0 DEF Deliver
  <2>2. queue' \in Seq(Jobs) BY <1>4, TailInQueue DEF Deliver
  <2>. QED BY <1>4, <2>1, <2>2 DEF Deliver
<1>5. CASE PassGate BY <1>5 DEF PassGate
<1>6. CASE Load BY <1>6 DEF Load
<1>7. CASE MarkRunning BY <1>0, <1>7, StatusType DEF MarkRunning
<1>8. CASE Send BY <1>8 DEF Send
<1>9. CASE MarkCompleted BY <1>0, <1>9, StatusType DEF MarkCompleted
<1>10. CASE Retry
  <2>1. current \in Jobs BY <1>10 DEF Retry
  <2>2. status' \in [Jobs -> Statuses] BY <1>0, <1>10, <2>1, StatusType DEF Retry
  <2>3. attempts' \in [Jobs -> 0..MaxRetries] BY <1>10, <2>1 DEF Retry, Plus
  <2>4. timers' \in [Jobs -> Nat] BY <1>10, <2>1, PlusMinus DEF Retry
  <2>. QED BY <1>10, <2>2, <2>3, <2>4 DEF Retry
<1>11. CASE GiveUp BY <1>11 DEF GiveUp
<1>12. CASE MarkFailed BY <1>0, <1>12, StatusType DEF MarkFailed
<1>13. CASE Ack
  <2>0. Plus(pending, current) \in [Jobs -> Nat] BY <1>13, PlusMinus DEF Ack
  <2>1. pending' \in [Jobs -> Nat] BY <1>13, <2>0 DEF Ack
  <2>2. pc' \in Pc BY <1>13 DEF Ack
  <2>. QED BY <1>13, <2>1, <2>2 DEF Ack
<1>14. CASE TimeOut
  <2>0. Plus(abandoned, current) \in [Jobs -> Nat]
    BY <1>14, PlusMinus DEF TimeOut
  <2>1. abandoned' \in {Plus(abandoned, current), abandoned}
    BY <1>14 DEF TimeOut
  <2>2. abandoned' \in [Jobs -> Nat] BY <2>0, <2>1
  <2>. QED BY <1>14, <2>2 DEF TimeOut
<1>15. CASE HandlerRaises \/ StopConsuming \/ QueueRaises
  BY <1>15 DEF HandlerRaises, StopConsuming, QueueRaises
<1>16. CASE Acquire
  <2>0. \A j \in Jobs :
          abandoned[j] > 0 => Minus(abandoned, j) \in [Jobs -> Nat]
    BY PlusMinus
  <2>1. abandoned' \in [Jobs -> Nat] BY <1>16, <2>0 DEF Acquire
  <2>2. serving' \in Jobs BY <1>16 DEF Acquire
  <2>. QED BY <1>16, <2>1, <2>2 DEF Acquire, UpService
<1>17. CASE WriteAudio \/ Answer \/ Refuse
  <2>1. audio' \in [Jobs -> {"none", "partial", "whole"}]
    BY <1>17 DEF WriteAudio, Answer, Refuse
  <2>. QED BY <1>17, <2>1 DEF WriteAudio, Answer, Refuse, UpService
<1>18. CASE ServiceDown \/ ServiceUp
  <2>1. abandoned' \in [Jobs -> Nat] BY <1>18, SMTT(30) DEF ServiceDown, ServiceUp
  <2>2. outages' \in 0..MaxOutages BY <1>18, SMTT(30) DEF ServiceDown, ServiceUp
  <2>3. pc' \in Pc /\ current' = current BY <1>18 DEF ServiceDown, ServiceUp
  <2>. QED BY <1>18, <2>1, <2>2, <2>3 DEF ServiceDown, ServiceUp
<1>19. CASE SessionStarts \/ SessionEnds
  <2>1. realtime' \in Nat BY <1>19 DEF SessionStarts, SessionEnds
  <2>2. sessions' \in 0..MaxSessions BY <1>19, SMTT(30) DEF SessionStarts, SessionEnds
  <2>. QED BY <1>19, <2>1, <2>2 DEF SessionStarts, SessionEnds
<1>20. CASE Close BY <1>20 DEF Close
<1>21. ASSUME Vanish PROVE /\ status' \in [Jobs -> Statuses]
                           /\ attempts' \in [Jobs -> 0..MaxRetries]
                           /\ audio' \in [Jobs -> {"none", "partial", "whole"}]
                           /\ queue' \in Seq(Jobs)
                           /\ pending' \in [Jobs -> Nat]
                           /\ abandoned' \in [Jobs -> Nat]
                           /\ timers' \in [Jobs -> Nat]
  <2>1. pc \in HoldingPc => /\ Plus(pending, current) \in [Jobs -> Nat]
                            /\ Plus(abandoned, current) \in [Jobs -> Nat]
    BY PlusMinus
  <2>2. pending' \in [Jobs -> Nat] BY <1>21, <2>1 DEF Vanish
  <2>3. abandoned' \in [Jobs -> Nat] BY <1>21, <2>1 DEF Vanish
  <2>4. timers' \in [Jobs -> Nat] BY <1>21 DEF Vanish
  <2>5. queue' \in Seq(Jobs) BY <1>21 DEF Vanish
  <2>. QED BY <1>21, <2>2, <2>3, <2>4, <2>5 DEF Vanish
<1>22. CASE Closed BY <1>21, <1>22 DEF Closed, Vanish
<1>23. CASE Crash
  <2>1. stops' \in 0..MaxStops BY <1>23 DEF Crash
  <2>. QED BY <1>21, <1>23, <2>1 DEF Crash, Vanish
<1>24. CASE Start
  <2>1. queue' \in Seq(Jobs) BY <1>24, ListingInQueue DEF Start
  <2>2. status' \in [Jobs -> Statuses] BY <1>24 DEF Start, Statuses
  <2>3. audio' \in [Jobs -> {"none", "partial", "whole"}] BY <1>24 DEF Start
  <2>. QED BY <1>24, <2>1, <2>2, <2>3 DEF Start
<1>. QED BY <1>1, <1>2, <1>3, <1>4, <1>5, <1>6, <1>7, <1>8, <1>9, <1>10, <1>11,
            <1>12, <1>13, <1>14, <1>15, <1>16, <1>17, <1>18, <1>19, <1>20,
            <1>22, <1>23, <1>24 DEF Next, Dispatch

LEMMA NextDispatcherInv ==
  ASSUME TypeOK, DispatcherInv, Next
  PROVE  DispatcherInv'
<1> USE DEF TypeOK, HoldingPc, WorkPc, DispatcherInv
<1>1. ASSUME NEW j \in Jobs, CreateJob(j) \/ Enqueue(j) \/ TimerFires(j)
      PROVE  DispatcherInv'
  BY <1>1 DEF CreateJob, Enqueue, TimerFires
<1>2. ASSUME NEW j \in Jobs, Deliver(j) PROVE DispatcherInv'
  BY <1>2 DEF Deliver
<1>3. CASE PassGate \/ Load \/ MarkRunning \/ Send \/ MarkCompleted
  BY <1>3 DEF PassGate, Load, MarkRunning, Send, MarkCompleted
<1>4. CASE Retry \/ GiveUp \/ MarkFailed \/ TimeOut
  BY <1>4 DEF Retry, GiveUp, MarkFailed, TimeOut
<1>5. CASE Ack BY <1>5 DEF Ack
<1>6. CASE HandlerRaises \/ StopConsuming \/ QueueRaises
  BY <1>6 DEF HandlerRaises, StopConsuming, QueueRaises
<1>7. CASE Acquire \/ WriteAudio \/ Answer \/ Refuse
  BY <1>7 DEF Acquire, WriteAudio, Answer, Refuse, UpService
<1>8. CASE ServiceDown \/ ServiceUp BY <1>8 DEF ServiceDown, ServiceUp
<1>9. CASE SessionStarts \/ SessionEnds BY <1>9 DEF SessionStarts, SessionEnds
<1>10. CASE Close \/ Start BY <1>10 DEF Close, Start
<1>11. CASE Closed \/ Crash BY <1>11 DEF Closed, Crash, Vanish
<1>. QED BY <1>1, <1>2, <1>3, <1>4, <1>5, <1>6, <1>7, <1>8, <1>9, <1>10, <1>11
         DEF Next, Dispatch

-----------------------------------------------------------------------------
(* The dispatcher works on no finished job.                                *)
LEMMA NextOpenInv ==
  ASSUME TypeOK, DispatcherInv, OpenInv, Next
  PROVE  OpenInv'
<1> USE DEF TypeOK, HoldingPc, WorkPc, DispatcherInv, OpenInv, Finished
<1>1. ASSUME NEW j \in Jobs, CreateJob(j) PROVE OpenInv'
  BY <1>1 DEF CreateJob, SetStatus
<1>2. ASSUME NEW j \in Jobs, Enqueue(j) \/ TimerFires(j) \/ Deliver(j)
      PROVE  OpenInv'
  BY <1>2 DEF Enqueue, TimerFires, Deliver
<1>3. CASE PassGate \/ Send BY <1>3 DEF PassGate, Send
<1>4. CASE Load BY <1>4 DEF Load, Unfinished, Exists
<1>5. CASE MarkRunning BY <1>5 DEF MarkRunning, SetStatus
<1>6. CASE MarkCompleted \/ MarkFailed \/ Retry
  BY <1>6 DEF MarkCompleted, MarkFailed, Retry
<1>7. CASE GiveUp \/ TimeOut BY <1>7 DEF GiveUp, TimeOut
<1>8. CASE Ack BY <1>8 DEF Ack
<1>9. CASE HandlerRaises \/ StopConsuming \/ QueueRaises
  BY <1>9 DEF HandlerRaises, StopConsuming, QueueRaises
<1>10. CASE Acquire \/ WriteAudio \/ Answer \/ Refuse
  BY <1>10 DEF Acquire, WriteAudio, Answer, Refuse, UpService
<1>11. CASE ServiceDown \/ ServiceUp BY <1>11 DEF ServiceDown, ServiceUp
<1>12. CASE SessionStarts \/ SessionEnds \/ Close
  BY <1>12 DEF SessionStarts, SessionEnds, Close
<1>13. CASE Start BY <1>13 DEF Start
<1>14. CASE Closed \/ Crash BY <1>14 DEF Closed, Crash, Vanish
<1>. QED BY <1>1, <1>2, <1>3, <1>4, <1>5, <1>6, <1>7, <1>8, <1>9, <1>10, <1>11,
            <1>12, <1>13, <1>14 DEF Next, Dispatch

-----------------------------------------------------------------------------
(* A step that keeps every token, and makes no job unfinished, loses none. *)
LEMMA TokensKept ==
  ASSUME NoLostJob,
         proc' = "up" /\ pc' \notin {"ackDie", "dead"} =>
             proc = "up" /\ pc \notin {"ackDie", "dead"},
         \A j \in Jobs : "queue" \notin Faults /\ status'[j] \in Unfinished =>
             status[j] \in Unfinished /\ (HasToken(j) => HasToken(j)')
  PROVE  NoLostJob'
BY DEF NoLostJob

LEMMA NextNoLostJob ==
  ASSUME TypeOK, DispatcherInv, NoLostJob, Next
  PROVE  NoLostJob'
<1> USE DEF HoldingPc, WorkPc
<1> USE DEF DispatcherInv
<1>0. \A j \in Jobs : /\ queue' = queue => (InQueue(j) <=> InQueue(j)')
                      /\ UNCHANGED worker => (WorksOn(j) <=> WorksOn(j)')
  BY DEF InQueue, WorksOn
<1>1. ASSUME NEW j \in Jobs, CreateJob(j) PROVE NoLostJob'
  <2>1. \A k \in Jobs : k = j \/ (HasToken(k) => HasToken(k)')
    BY <1>0, <1>1 DEF CreateJob, HasToken
  <2>2. HasToken(j)' BY <1>1 DEF CreateJob, HasToken
  <2>3. \A k \in Jobs : k = j \/ status'[k] = status[k]
    BY <1>1 DEF CreateJob, SetStatus, TypeOK
  <2>. QED BY <1>1, <2>1, <2>2, <2>3 DEF CreateJob, NoLostJob
<1>2. ASSUME NEW j \in Jobs, Enqueue(j) PROVE NoLostJob'
  <2>1. ASSUME "queue" \notin Faults, NEW k \in Jobs, HasToken(k)
        PROVE  HasToken(k)'
    BY <1>0, <1>2, <2>1, AppendInQueue DEF Enqueue, HasToken
  <2>. QED BY <1>2, <2>1, TokensKept DEF Enqueue
<1>3. ASSUME NEW j \in Jobs, TimerFires(j) PROVE NoLostJob'
  <2>1. CASE proc = "up" /\ "queue" \notin Faults
    <3>1. queue' = Append(queue, j) BY <1>3, <2>1 DEF TimerFires
    <3>2. ASSUME NEW k \in Jobs, k # j PROVE timers'[k] = timers[k]
      <4>1. Minus(timers, j)[k] = timers[k]
        <5>1. timers \in [Jobs -> Nat] BY DEF TypeOK
        <5>. QED BY <3>2, <5>1, MinusOther
      <4>. QED BY <1>3, <4>1 DEF TimerFires
    <3>3. ASSUME NEW k \in Jobs, HasToken(k) PROVE HasToken(k)'
      BY <1>0, <1>3, <3>1, <3>2, <3>3, AppendInQueue DEF TimerFires, HasToken
    <3>. QED BY <1>3, <3>3, TokensKept DEF TimerFires
  <2>2. CASE ~(proc = "up" /\ "queue" \notin Faults)
    BY <1>3, <2>2 DEF TimerFires, NoLostJob
  <2>. QED BY <2>1, <2>2
<1>4. ASSUME NEW j \in Jobs, Deliver(j) PROVE NoLostJob'
  <2>1. WorksOn(j)' BY <1>4 DEF Deliver, WorksOn
  <2>2. ASSUME NEW k \in Jobs, k # j, HasToken(k) PROVE HasToken(k)'
    <3>0. Minus(pending, j)[k] = pending[k]
      <4>1. pending \in [Jobs -> Nat] BY DEF TypeOK
      <4>. QED BY <2>2, <4>1, MinusOther
    <3>1. pending'[k] = pending[k] BY <1>4, <3>0 DEF Deliver
    <3>2. InQueue(k) => InQueue(k)'
      BY <1>0, <1>4, <2>2, TailInQueue DEF Deliver
    <3>3. ~WorksOn(k) BY <1>4 DEF Deliver, WorksOn
    <3>. QED BY <1>4, <2>2, <3>1, <3>2, <3>3 DEF Deliver, HasToken
  <2>3. \A k \in Jobs : HasToken(k) => HasToken(k)'
    BY <2>1, <2>2 DEF HasToken
  <2>. QED BY <1>4, <2>3, TokensKept DEF Deliver
(* The dispatcher keeps the job it holds.                                  *)
<1>5. ASSUME UNCHANGED <<status, creating, queue, pending, timers, proc>>,
             \A j \in Jobs : WorksOn(j) => WorksOn(j)',
             pc' \notin {"ackDie", "dead"} => pc \notin {"ackDie", "dead"}
      PROVE  NoLostJob'
  <2>1. \A j \in Jobs : HasToken(j) => HasToken(j)' BY <1>0, <1>5 DEF HasToken
  <2>. QED BY <1>5, <2>1, TokensKept
<1>6. CASE PassGate \/ Send \/ GiveUp \/ TimeOut
  BY <1>5, <1>6 DEF PassGate, Send, GiveUp, TimeOut, WorksOn
<1>7. CASE Acquire \/ WriteAudio \/ Answer \/ Refuse
  BY <1>5, <1>7 DEF Acquire, WriteAudio, Answer, Refuse, UpService, WorksOn
<1>8. CASE ServiceDown \/ ServiceUp
  BY <1>5, <1>8 DEF ServiceDown, ServiceUp, WorksOn
<1>9. CASE SessionStarts \/ SessionEnds
  BY <1>5, <1>9 DEF SessionStarts, SessionEnds, WorksOn
<1>10. CASE Load
  <2>1. CASE pc' = "ack"
    <3>1. \A j \in Jobs : j # current \/ status[current] \in Finished
      BY <1>10, <2>1 DEF Load
    <3>2. ASSUME NEW j \in Jobs, status[j] \in Unfinished
          PROVE  HasToken(j) => HasToken(j)'
      <4>1. ~WorksOn(j) BY <3>1, <3>2 DEF WorksOn, Finished, Unfinished
      <4>. QED BY <1>0, <1>10, <4>1 DEF Load, HasToken
    <3>. QED BY <1>10, <3>2, TokensKept DEF Load
  <2>2. CASE pc' # "ack" BY <1>5, <1>10, <2>2 DEF Load, WorksOn
  <2>. QED BY <2>1, <2>2
<1>11. CASE MarkRunning
  <2>1. status'[current] \in Unfinished => HasToken(current)'
    BY <1>11 DEF MarkRunning, HasToken, WorksOn
  <2>2. ASSUME NEW j \in Jobs, j # current
        PROVE  /\ status'[j] = status[j]
               /\ HasToken(j) => HasToken(j)'
    BY <1>0, <1>11, <2>2
       DEF MarkRunning, SetStatus, HasToken, WorksOn, TypeOK
  <2>. QED BY <1>11, <2>1, <2>2 DEF MarkRunning, NoLostJob
<1>12. CASE MarkCompleted \/ MarkFailed
  <2>1. pc' = "ack" => status'[current] \notin Unfinished
    BY <1>12 DEF MarkCompleted, MarkFailed, SetStatus, Unfinished, TypeOK
  <2>2. pc' # "ack" => HasToken(current)'
    BY <1>12 DEF MarkCompleted, MarkFailed, HasToken, WorksOn
  <2>3. ASSUME NEW j \in Jobs, j # current
        PROVE  /\ status'[j] = status[j]
               /\ HasToken(j) => HasToken(j)'
    BY <1>0, <1>12, <2>3
       DEF MarkCompleted, MarkFailed, SetStatus, HasToken, WorksOn, TypeOK
  <2>. QED BY <1>12, <2>1, <2>2, <2>3 DEF MarkCompleted, MarkFailed, NoLostJob
<1>13. CASE Retry
  <2>1. current \in Jobs BY <1>13 DEF Retry
  <2>2. HasToken(current)'
    BY <1>13, <2>1, PlusMinus DEF Retry, HasToken, TypeOK
  <2>3. ASSUME NEW j \in Jobs, j # current
        PROVE  /\ status'[j] = status[j]
               /\ HasToken(j) => HasToken(j)'
    <3>1. timers[j] > 0 => timers'[j] > 0
      BY <1>13, <2>1, PlusMinus DEF Retry, TypeOK
    <3>. QED BY <1>0, <1>13, <2>3, <3>1
             DEF Retry, SetStatus, HasToken, WorksOn, TypeOK
  <2>. QED BY <1>13, <2>2, <2>3 DEF Retry, NoLostJob
<1>14. CASE Ack
  <2>1. CASE pc = "ack" /\ "queue" \notin Faults
    <3>1. \A j \in Jobs : HasToken(j) => HasToken(j)'
      BY <1>0, <1>14, <2>1 DEF Ack, HasToken, WorksOn
    <3>. QED BY <1>14, <2>1, <3>1, TokensKept DEF Ack
  <2>2. CASE pc = "ackDie" \/ "queue" \in Faults
    BY <1>14, <2>2 DEF Ack, NoLostJob
  <2>. QED BY <1>14, <2>1, <2>2 DEF Ack
<1>15. CASE HandlerRaises \/ QueueRaises
  BY <1>15 DEF HandlerRaises, QueueRaises, NoLostJob
<1>16. CASE StopConsuming \/ Close BY <1>16 DEF StopConsuming, Close, NoLostJob
<1>17. CASE Closed \/ Crash BY <1>17 DEF Closed, Crash, Vanish, NoLostJob
<1>18. CASE Start
  <2>1. PICK expired \in SUBSET {j \in Jobs : Exists(j)} :
          /\ status' = [j \in Jobs |->
                IF j \in expired THEN "deleted"
                ELSE IF status[j] = "running" THEN "queued" ELSE status[j]]
          /\ \E s \in Listings({j \in Jobs \ expired : status[j] \in Unfinished}) :
                queue' = queue \o s
    BY <1>18 DEF Start
  <2>2. \A j \in Jobs \ expired : status[j] \in Unfinished => InQueue(j)'
    BY <2>1, ListingInQueue
  <2>3. ASSUME NEW j \in Jobs, status'[j] \in Unfinished PROVE InQueue(j)'
    <3>1. j \notin expired /\ status[j] \in Unfinished
      BY <2>1, <2>3 DEF Unfinished
    <3>. QED BY <2>2, <3>1
  <2>. QED BY <2>3 DEF NoLostJob, HasToken
<1>. QED BY <1>1, <1>2, <1>3, <1>4, <1>6, <1>7, <1>8, <1>9, <1>10, <1>11,
            <1>12, <1>13, <1>14, <1>15, <1>16, <1>17, <1>18 DEF Next, Dispatch

-----------------------------------------------------------------------------
(* The inductive invariant: NoLostJob is inductive once the dispatcher is  *)
(* known to hold a job, and OpenInv is what FinishedStaysFinished needs.   *)
THEOREM Invariance == Spec => []IInv
<1>1. IInv /\ [Next]_vars => IInv'
  BY StutterInv, NextTypeOK, NextDispatcherInv, NextNoLostJob, NextOpenInv
     DEF IInv
<1>. QED BY InitInv, <1>1, PTL DEF Spec

(* Every variable keeps its type.                                          *)
THEOREM TypeCorrect == Spec => []TypeOK
BY Invariance, PTL DEF IInv

(* No accepted synthesis job is forgotten: whatever crashes, times out or  *)
(* is retried, a job that is not finished has a message, a timer or the    *)
(* dispatcher working for it, with either queue.                           *)
THEOREM NoLostJobHolds == Spec => []NoLostJob
BY Invariance, PTL DEF IInv

(* A finished job keeps its status until retention removes it, however     *)
(* many messages of it are still about, unless statements raise.           *)
THEOREM FinishedStaysFinishedHolds == Spec => FinishedStaysFinished
<1>1. ASSUME IInv, [Next]_vars, NEW j \in Jobs, status[j] \in Finished
      PROVE  "db" \in Faults \/ status'[j] \in {status[j], "deleted"}
  <2> USE <1>1 DEF Finished, IInv
  <2>1. CASE UNCHANGED status BY <2>1
  <2>2. CASE MarkRunning \/ MarkCompleted \/ Retry \/ MarkFailed
    BY <2>2 DEF MarkRunning, MarkCompleted, Retry, MarkFailed, SetStatus,
                OpenInv, WorkPc, TypeOK
  <2>3. ASSUME NEW k \in Jobs, CreateJob(k) PROVE status'[j] = status[j]
    BY <2>3 DEF CreateJob, SetStatus, TypeOK
  <2>4. CASE Start BY <2>4 DEF Start, TypeOK
  <2>5. CASE \/ \E k \in Jobs : Enqueue(k) \/ TimerFires(k) \/ Deliver(k)
             \/ PassGate \/ Load \/ Send \/ GiveUp \/ Ack \/ TimeOut
             \/ HandlerRaises \/ StopConsuming \/ QueueRaises
             \/ SessionStarts \/ SessionEnds \/ Close
    BY <2>1, <2>5 DEF Enqueue, TimerFires, Deliver, PassGate, Load, Send,
       GiveUp, Ack, TimeOut, HandlerRaises, StopConsuming, QueueRaises,
       SessionStarts, SessionEnds, Close
  <2>6. CASE \/ Acquire \/ WriteAudio \/ Answer \/ Refuse \/ ServiceDown
             \/ ServiceUp \/ Closed \/ Crash
    BY <2>1, <2>6 DEF Acquire, WriteAudio, Answer, Refuse, UpService,
       ServiceDown, ServiceUp, Closed, Crash, Vanish
  <2>. QED BY <2>1, <2>2, <2>3, <2>4, <2>5, <2>6 DEF Next, Dispatch, vars
<1>2. IInv /\ [Next]_vars =>
        [\A j \in Jobs : status[j] \in Finished =>
            "db" \in Faults \/ status'[j] \in {status[j], "deleted"}]_vars
  BY <1>1
<1>. QED BY Invariance, <1>2, PTL DEF Spec, FinishedStaysFinished

-----------------------------------------------------------------------------
(* With the in-memory queue, one token per job: the queue lists a set Q of *)
(* jobs, and a job in Q, being created, waiting for its delay or worked on *)
(* is only one of these.  A job without a row is none of them.             *)

Single(Q) ==
    /\ Lists(queue, Q)
    /\ \A j \in Q : j \notin creating /\ timers[j] = 0 /\ ~WorksOn(j)
    /\ \A j \in creating : timers[j] = 0 /\ ~WorksOn(j)
    /\ \A j \in Jobs : WorksOn(j) => timers[j] = 0
    /\ \A j \in Jobs : timers[j] <= 1 /\ pending[j] = 0
    /\ \A j \in Jobs : status[j] = "none" =>
          j \notin Q /\ j \notin creating /\ timers[j] = 0 /\ ~WorksOn(j)

DownInv ==
    proc = "down" => /\ queue = <<>> /\ creating = {}
                     /\ \A j \in Jobs : timers[j] = 0

SingleInv ==
    ~Durable => DownInv /\ \E Q \in SUBSET Jobs : Single(Q)

-----------------------------------------------------------------------------
(* The recordings: a partial one is being written, as long as every        *)
(* request is answered, and a request that is answered has written one.    *)

AudioInv ==
    /\ pc = "synth" => serving = current
    /\ pc = "complete" => audio[current] # "none"
    /\ \A j \in Jobs : status[j] = "completed" => audio[j] # "none"
    /\ outages = 0 /\ "synthesis" \notin Faults =>
          \A j \in Jobs : audio[j] = "partial" => serving = j

LEMMA NextAudioInv ==
  ASSUME TypeOK, DispatcherInv, AudioInv, Next
  PROVE  AudioInv'
<1> USE DEF TypeOK, HoldingPc, WorkPc, DispatcherInv, AudioInv
<1>1. ASSUME NEW j \in Jobs, CreateJob(j) PROVE AudioInv'
  BY <1>1 DEF CreateJob, SetStatus
<1>2. ASSUME NEW j \in Jobs, Enqueue(j) \/ TimerFires(j) \/ Deliver(j)
      PROVE  AudioInv'
  BY <1>2 DEF Enqueue, TimerFires, Deliver
<1>3. CASE PassGate \/ Send \/ Load BY <1>3 DEF PassGate, Send, Load
<1>4. CASE MarkRunning BY <1>4 DEF MarkRunning, SetStatus
<1>5. CASE MarkCompleted BY <1>5 DEF MarkCompleted, SetStatus
<1>6. CASE MarkFailed \/ Retry BY <1>6 DEF MarkFailed, Retry, SetStatus
<1>7. CASE GiveUp \/ TimeOut BY <1>7 DEF GiveUp, TimeOut
<1>8. CASE Ack BY <1>8 DEF Ack
<1>9. CASE HandlerRaises \/ StopConsuming \/ QueueRaises
  BY <1>9 DEF HandlerRaises, StopConsuming, QueueRaises
<1>10. CASE Acquire BY <1>10 DEF Acquire, UpService
<1>11. CASE WriteAudio BY <1>11 DEF WriteAudio, UpService
<1>12. CASE Answer BY <1>12 DEF Answer, UpService
<1>13. CASE Refuse BY <1>13 DEF Refuse, UpService
<1>14. CASE ServiceDown \/ ServiceUp
  <2>1. CASE ServiceDown
    <3>1. outages' # 0 BY <2>1 DEF ServiceDown
    <3>2. UNCHANGED <<status, audio>> /\ pc' \notin {"synth"}
          /\ (pc' = "complete" => pc = "complete" /\ current' = current)
      BY <2>1 DEF ServiceDown
    <3>. QED BY <3>1, <3>2
  <2>2. CASE ServiceUp BY <2>2 DEF ServiceUp
  <2>. QED BY <1>14, <2>1, <2>2
<1>15. CASE SessionStarts \/ SessionEnds \/ Close
  BY <1>15 DEF SessionStarts, SessionEnds, Close
<1>16. CASE Start BY <1>16 DEF Start
<1>17. CASE Closed \/ Crash BY <1>17 DEF Closed, Crash, Vanish
<1>. QED BY <1>1, <1>2, <1>3, <1>4, <1>5, <1>6, <1>7, <1>8, <1>9, <1>10, <1>11,
            <1>12, <1>13, <1>14, <1>15, <1>16, <1>17 DEF Next, Dispatch

(* A completed job can be played, whatever was answered, timed out, was    *)
(* tried again or restarted before, as long as every request is answered.  *)
THEOREM CompletedAudioIsWholeHolds == Spec => []CompletedAudioIsWhole
<1>1. Init => AudioInv BY DEF Init, AudioInv
<1>2. IInv /\ AudioInv /\ [Next]_vars => AudioInv'
  <2>1. ASSUME AudioInv, UNCHANGED vars PROVE AudioInv'
    BY <2>1 DEF AudioInv, vars
  <2>. QED BY <2>1, NextAudioInv DEF IInv
<1>3. TypeOK /\ AudioInv => CompletedAudioIsWhole
  BY DEF TypeOK, AudioInv, CompletedAudioIsWhole
<1>. QED BY <1>1, <1>2, <1>3, Invariance, TypeCorrect, PTL DEF Spec

-----------------------------------------------------------------------------
(* One token per job, with the in-memory queue.                            *)

(* A step that makes no token.                                             *)
LEMMA SingleKept ==
  ASSUME TypeOK, SingleInv, ~Durable, UNCHANGED <<queue, creating, timers, pending>>,
         proc' = "down" => proc = "down",
         \A j \in Jobs : /\ status'[j] = "none" => status[j] = "none"
                         /\ WorksOn(j)' => WorksOn(j)
  PROVE  SingleInv'
<1>1. PICK Q \in SUBSET Jobs : Single(Q) BY DEF SingleInv
<1>2. Single(Q)'
  <2>1. Lists(queue, Q)' BY <1>1 DEF Single
  <2>2. \A j \in Jobs : /\ status'[j] = "none" => status[j] = "none"
                        /\ WorksOn(j)' => WorksOn(j)
    OBVIOUS
  <2>3. creating \subseteq Jobs BY DEF TypeOK
  <2>4. (\A j \in Q : j \notin creating /\ timers[j] = 0 /\ ~WorksOn(j))'
    BY <1>1, <2>2 DEF Single
  <2>5. (\A j \in creating : timers[j] = 0 /\ ~WorksOn(j))'
    BY <1>1, <2>2, <2>3 DEF Single
  <2>6. (\A j \in Jobs : WorksOn(j) => timers[j] = 0)'
    BY <1>1, <2>2 DEF Single
  <2>7. (\A j \in Jobs : timers[j] <= 1 /\ pending[j] = 0)'
    BY <1>1 DEF Single
  <2>8. (\A j \in Jobs : status[j] = "none" =>
            j \notin Q /\ j \notin creating /\ timers[j] = 0 /\ ~WorksOn(j))'
    BY <1>1, <2>2 DEF Single
  <2>. QED BY <2>1, <2>4, <2>5, <2>6, <2>7, <2>8 DEF Single
<1>3. DownInv' BY DEF SingleInv, DownInv
<1>. QED BY <1>2, <1>3 DEF SingleInv

(* The listing of the queued jobs has each of them once.                   *)
LEMMA ListingLists ==
  ASSUME NEW S \in SUBSET Jobs, NEW s \in Listings(S)
  PROVE  s \in Seq(Jobs) /\ Lists(s, S)
<1>1. IsFiniteSet(S) /\ Cardinality(S) \in Nat BY FS_Subset, FS_CardinalityType
<1>2. s \in [1..Cardinality(S) -> S] /\ \A x \in S : \E i \in DOMAIN s : s[i] = x
  BY DEF Listings
<1>3. s \in [1..Cardinality(S) -> Jobs] BY <1>2
<1>. QED BY <1>1, <1>2, <1>3, ListsAll

LEMMA NextSingleInv ==
  ASSUME TypeOK, DispatcherInv, SingleInv, Next
  PROVE  SingleInv'
<1> SUFFICES ASSUME ~Durable PROVE SingleInv' BY DEF SingleInv
<1>0. PICK Q \in SUBSET Jobs : Single(Q) BY DEF SingleInv
<1>1. /\ queue \in Seq(Jobs) /\ timers \in [Jobs -> Nat]
      /\ pending \in [Jobs -> Nat] /\ creating \subseteq Jobs
      /\ status \in [Jobs -> Statuses]
      /\ current \in Jobs \cup {Nobody}
  BY DEF TypeOK
<1>2. /\ Lists(queue, Q)
      /\ \A j \in Q : j \notin creating /\ timers[j] = 0 /\ ~WorksOn(j)
      /\ \A j \in creating : timers[j] = 0 /\ ~WorksOn(j)
      /\ \A j \in Jobs : WorksOn(j) => timers[j] = 0
      /\ \A j \in Jobs : timers[j] <= 1 /\ pending[j] = 0
      /\ \A j \in Jobs : status[j] = "none" =>
            j \notin Q /\ j \notin creating /\ timers[j] = 0 /\ ~WorksOn(j)
  BY <1>0 DEF Single
<1>3. DownInv BY DEF SingleInv
<1>4. ASSUME NEW j \in Jobs, CreateJob(j) PROVE SingleInv'
  <2>1. /\ UNCHANGED <<queue, timers, pending, pc, current>>
        /\ creating' = creating \cup {j} /\ proc' = "up"
        /\ status[j] = "none" /\ status'[j] = "queued"
        /\ \A k \in Jobs : k # j => status'[k] = status[k]
    BY <1>1, <1>4 DEF CreateJob, SetStatus
  <2>2. \A k : WorksOn(k)' <=> WorksOn(k) BY <2>1 DEF WorksOn
  <2>3. Lists(queue, Q)' BY <1>2, <2>1
  <2>4. Single(Q)' BY <1>1, <1>2, <2>1, <2>2, <2>3 DEF Single
  <2>. QED BY <2>1, <2>4 DEF SingleInv, DownInv
<1>5. ASSUME NEW j \in Jobs, Enqueue(j) PROVE SingleInv'
  <2>1. /\ UNCHANGED <<timers, pending, pc, current, status, proc>>
        /\ j \in creating /\ creating' = creating \ {j} /\ proc # "down"
        /\ queue' = Append(queue, j) \/ queue' = queue
    BY <1>3, <1>5 DEF Enqueue, DownInv
  <2>2. \A k : WorksOn(k)' <=> WorksOn(k) BY <2>1 DEF WorksOn
  <2>3. CASE queue' = Append(queue, j)
    <3>1. j \notin Q BY <1>2, <2>1
    <3>2. Lists(queue, Q \cup {j})' BY <1>1, <1>2, <2>3, <3>1, ListsAppend
    <3>3. Single(Q \cup {j})' BY <1>2, <2>1, <2>2, <3>2 DEF Single
    <3>. QED BY <2>1, <3>3 DEF SingleInv, DownInv
  <2>4. CASE queue' = queue
    <3>1. Lists(queue, Q)' BY <1>2, <2>4
    <3>2. Single(Q)' BY <1>2, <2>1, <2>2, <3>1 DEF Single
    <3>. QED BY <2>1, <3>2 DEF SingleInv, DownInv
  <2>. QED BY <2>1, <2>3, <2>4
<1>6. ASSUME NEW j \in Jobs, TimerFires(j) PROVE SingleInv'
  <2>1. /\ UNCHANGED <<creating, pending, pc, current, status, proc>>
        /\ timers[j] = 1 /\ timers'[j] = 0 /\ proc # "down"
        /\ \A k \in Jobs : k # j => timers'[k] = timers[k]
        /\ queue' = Append(queue, j) \/ queue' = queue
    BY <1>1, <1>2, <1>3, <1>6 DEF TimerFires, DownInv, Minus
  <2>2. \A k : WorksOn(k)' <=> WorksOn(k) BY <2>1 DEF WorksOn
  <2>3. CASE queue' = Append(queue, j)
    <3>1. j \notin Q BY <1>2, <2>1
    <3>2. Lists(queue, Q \cup {j})' BY <1>1, <1>2, <2>3, <3>1, ListsAppend
    <3>3. Single(Q \cup {j})' BY <1>1, <1>2, <2>1, <2>2, <3>2 DEF Single
    <3>. QED BY <2>1, <3>3 DEF SingleInv, DownInv
  <2>4. CASE queue' = queue
    <3>1. Lists(queue, Q)' BY <1>2, <2>4
    <3>2. \A k \in Jobs : timers'[k] = timers[k] \/ timers'[k] = 0
      BY <2>1
    <3>3. Q \subseteq Jobs /\ creating \subseteq Jobs BY <1>1
    <3>4. (\A k \in Q : k \notin creating /\ timers[k] = 0 /\ ~WorksOn(k))'
      BY <1>2, <2>1, <2>2, <3>2, <3>3
    <3>5. (\A k \in creating : timers[k] = 0 /\ ~WorksOn(k))'
      BY <1>2, <2>1, <2>2, <3>2, <3>3
    <3>6. (\A k \in Jobs : WorksOn(k) => timers[k] = 0)'
      BY <1>2, <2>2, <3>2
    <3>7. (\A k \in Jobs : timers[k] <= 1 /\ pending[k] = 0)'
      BY <1>2, <2>1, <3>2
    <3>8. (\A k \in Jobs : status[k] = "none" =>
              k \notin Q /\ k \notin creating /\ timers[k] = 0 /\ ~WorksOn(k))'
      BY <1>2, <2>1, <2>2, <3>2
    <3>9. Single(Q)' BY <3>1, <3>4, <3>5, <3>6, <3>7, <3>8 DEF Single
    <3>. QED BY <2>1, <3>9 DEF SingleInv, DownInv
  <2>. QED BY <2>1, <2>3, <2>4
<1>7. ASSUME NEW j \in Jobs, Deliver(j) PROVE SingleInv'
  <2>1. /\ UNCHANGED <<creating, pending, timers, status, proc>>
        /\ queue # <<>> /\ j = Head(queue) /\ queue' = Tail(queue)
        /\ pc' = "gate" /\ current' = j /\ proc # "down"
    BY <1>1, <1>2, <1>7 DEF Deliver
  <2>2. \A k : WorksOn(k)' <=> k = j BY <2>1 DEF WorksOn, WorkPc
  <2>3. j \in Q /\ Lists(queue, Q \ {j})' BY <1>1, <1>2, <2>1, ListsTail
  <2>4. Single(Q \ {j})' BY <1>2, <2>1, <2>2, <2>3 DEF Single
  <2>. QED BY <2>1, <2>4 DEF SingleInv, DownInv
<1>8. CASE Retry
  <2>1. current \in Jobs /\ WorksOn(current)
    BY <1>8 DEF Retry, DispatcherInv, HoldingPc, WorksOn, WorkPc
  <2>2. /\ UNCHANGED <<queue, creating, pending, proc>>
        /\ timers'[current] = timers[current] + 1 /\ pc' = "ack"
        /\ \A k \in Jobs : k # current => timers'[k] = timers[k]
        /\ status'[current] = "queued"
        /\ \A k \in Jobs : k # current => status'[k] = status[k]
    BY <1>1, <1>8, <2>1 DEF Retry, Plus, SetStatus
  <2>3. \A k : ~WorksOn(k)' BY <2>2 DEF WorksOn, WorkPc
  <2>4. /\ timers[current] = 0 /\ current \notin Q /\ current \notin creating
        /\ timers'[current] = 1
    BY <1>2, <2>1, <2>2
  <2>5. Lists(queue, Q)' BY <1>2, <2>2
  <2>6. Single(Q)' BY <1>1, <1>2, <2>2, <2>3, <2>4, <2>5 DEF Single
  <2>7. proc # "down" BY <1>8 DEF Retry, DispatcherInv
  <2>. QED BY <2>2, <2>6, <2>7 DEF SingleInv, DownInv
<1>9. CASE PassGate \/ Load \/ Send \/ GiveUp \/ TimeOut
  BY <1>9, SingleKept DEF PassGate, Load, Send, GiveUp, TimeOut, WorksOn, WorkPc
<1>10. CASE MarkRunning \/ MarkCompleted \/ MarkFailed
  <2>1. \A k \in Jobs : status'[k] = "none" => status[k] = "none"
    BY <1>1, <1>10 DEF MarkRunning, MarkCompleted, MarkFailed, SetStatus
  <2>. QED BY <1>10, <2>1, SingleKept
           DEF MarkRunning, MarkCompleted, MarkFailed, WorksOn, WorkPc
<1>11. CASE Ack BY <1>11, SingleKept DEF Ack, WorksOn, WorkPc
<1>12. CASE HandlerRaises \/ StopConsuming \/ QueueRaises
  BY <1>12, SingleKept
     DEF HandlerRaises, StopConsuming, QueueRaises, WorksOn, WorkPc
<1>13. CASE Acquire \/ WriteAudio \/ Answer \/ Refuse
  BY <1>13, SingleKept
     DEF Acquire, WriteAudio, Answer, Refuse, UpService, WorksOn, WorkPc
<1>14. CASE ServiceDown \/ ServiceUp
  BY <1>14, SingleKept DEF ServiceDown, ServiceUp, WorksOn, WorkPc
<1>15. CASE SessionStarts \/ SessionEnds \/ Close
  BY <1>15, SingleKept DEF SessionStarts, SessionEnds, Close, WorksOn
<1>16. CASE Closed \/ Crash
  <2>1. /\ queue' = <<>> /\ creating' = {} /\ pending' = pending
        /\ timers' = [j \in Jobs |-> 0] /\ pc' = "next" /\ status' = status
    BY <1>16 DEF Closed, Crash, Vanish
  <2>2. \A k : ~WorksOn(k)' BY <2>1 DEF WorksOn, WorkPc
  <2>3. DOMAIN <<>> = {} OBVIOUS
  <2>4. Lists(queue, {})' BY <2>1, <2>3 DEF Lists
  <2>5. Single({})' BY <1>2, <2>1, <2>2, <2>4 DEF Single
  <2>6. DownInv' BY <2>1 DEF DownInv
  <2>. QED BY <2>5, <2>6 DEF SingleInv
<1>17. CASE Start
  <2>1. /\ queue = <<>> /\ creating = {} /\ \A j \in Jobs : timers[j] = 0
        /\ pc = "next" /\ proc' = "up"
        /\ UNCHANGED <<creating, timers, pending, pc, current>>
    BY <1>3, <1>17 DEF Start, DownInv, DispatcherInv
  <2>2. PICK expired \in SUBSET {j \in Jobs : Exists(j)} :
          /\ status' = [j \in Jobs |->
                IF j \in expired THEN "deleted"
                ELSE IF status[j] = "running" THEN "queued" ELSE status[j]]
          /\ \E s \in Listings({j \in Jobs \ expired : status[j] \in Unfinished}) :
                queue' = queue \o s
    BY <1>17 DEF Start
  <2>0. PICK S \in SUBSET Jobs :
          S = {j \in Jobs \ expired : status[j] \in Unfinished}
    OBVIOUS
  <2>3. PICK s \in Listings(S) : queue' = queue \o s BY <2>0, <2>2
  <2>4. s \in Seq(Jobs) /\ Lists(s, S) BY ListingLists
  <2>5. queue' = s BY <2>1, <2>3, <2>4
  <2>6. \A j \in S : status'[j] # "none" BY <2>0, <2>2 DEF Unfinished
  <2>7. \A k : ~WorksOn(k)' BY <2>1 DEF WorksOn, WorkPc
  <2>8. Lists(queue, S)' BY <2>4, <2>5
  <2>9. Single(S)' BY <1>2, <2>1, <2>6, <2>7, <2>8 DEF Single
  <2>. QED BY <2>1, <2>9 DEF SingleInv, DownInv
<1>. QED BY <1>4, <1>5, <1>6, <1>7, <1>8, <1>9, <1>10, <1>11, <1>12, <1>13,
            <1>14, <1>15, <1>16, <1>17 DEF Next, Dispatch

(* With the in-memory queue a job has one token at a time: attempts follow *)
(* one another, whatever fails, raises, closes or restarts.                *)
THEOREM OneTokenPerJobHolds == Spec => []OneTokenPerJob
<1>1. Init => SingleInv
  <2>1. ASSUME Init PROVE Single({}) /\ DownInv
    <3>1. DOMAIN <<>> = {} OBVIOUS
    <3>2. Lists(queue, {}) BY <2>1, <3>1 DEF Init, Lists
    <3>3. \A k : ~WorksOn(k) BY <2>1 DEF Init, WorksOn, WorkPc
    <3>. QED BY <2>1, <3>2, <3>3 DEF Init, Single, DownInv
  <2>. QED BY <2>1 DEF SingleInv
<1>2. IInv /\ SingleInv /\ [Next]_vars => SingleInv'
  <2>1. ASSUME TypeOK, SingleInv, UNCHANGED vars PROVE SingleInv'
    <3>1. CASE Durable BY <3>1 DEF SingleInv
    <3>2. CASE ~Durable
      <4>1. /\ UNCHANGED <<queue, creating, timers, pending, proc, pc, current>>
            /\ status' = status
        BY <2>1 DEF vars, rows, worker
      <4>2. \A j \in Jobs : /\ status'[j] = "none" => status[j] = "none"
                            /\ WorksOn(j)' => WorksOn(j)
        BY <4>1 DEF WorksOn
      <4>. QED BY <2>1, <3>2, <4>1, <4>2, SingleKept
    <3>. QED BY <3>1, <3>2
  <2>. QED BY <2>1, NextSingleInv DEF IInv
<1>3. TypeOK /\ SingleInv => OneTokenPerJob
  <2>1. ASSUME TypeOK, SingleInv, ~Durable, NEW j \in Jobs PROVE Tokens(j) <= 1
    <3>1. PICK Q \in SUBSET Jobs : Single(Q) BY <2>1 DEF SingleInv
    <3>2. Lists(queue, Q) /\ pending[j] = 0 /\ timers[j] \in {0, 1}
      BY <2>1, <3>1 DEF Single, TypeOK
    <3>3. Cardinality({i \in DOMAIN queue : queue[i] = j})
            = IF j \in Q THEN 1 ELSE 0
      BY <3>2, ListsPlaces
    <3>4. /\ j \in Q => j \notin creating /\ timers[j] = 0 /\ ~WorksOn(j)
          /\ j \in creating => timers[j] = 0 /\ ~WorksOn(j)
          /\ WorksOn(j) => timers[j] = 0
      BY <3>1 DEF Single
    <3>. QED BY <3>2, <3>3, <3>4 DEF Tokens
  <2>. QED BY <2>1 DEF OneTokenPerJob
<1>. QED BY <1>1, <1>2, <1>3, Invariance, TypeCorrect, PTL DEF Spec
=============================================================================
