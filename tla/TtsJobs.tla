------------------------------- MODULE TtsJobs -------------------------------
(***************************************************************************)
(* Speech synthesis: TtsManager's dispatcher takes jobs from a queue, asks *)
(* the CosyVoice worker process to synthesize them and retries while that  *)
(* process is unavailable.  The rows, and a Redis queue, survive a crash   *)
(* of the backend; coroutines, timers and an in-memory queue do not.  The  *)
(* CosyVoice process is a separate one: it goes on with what it was asked, *)
(* whatever became of the client.                                          *)
(*                                                                         *)
(* A step is what happens between two awaits of the dispatcher; a row is   *)
(* read and written in one step when nobody else could write it between.   *)
(* Texts, voices, error texts and the lengths of delays are abstracted.    *)
(***************************************************************************)
EXTENDS Naturals, Sequences, FiniteSets

CONSTANTS
    Jobs,           \* job ids that may be submitted
    Nobody,         \* no job
    Durable,        \* RedisTtsQueue (TRUE) or InMemoryTtsQueue (FALSE)
    MaxRetries,     \* how many delays retry_delays_seconds lists
    Faults,         \* the failures that may happen, among AllFaults
    MaxStops,       \* bound: how often the backend stops or dies
    MaxOutages,     \* bound: how often the CosyVoice process goes down
    MaxSessions     \* bound: how many realtime sessions are started

(* "timeout": httpx gives up waiting for an answer; "synthesis": any error *)
(* that is not retried; "retention": a job is older than retention_days,   *)
(* or its voice has expired, when the backend starts; "db", "queue": a     *)
(* statement, or a command of the queue, raises and has no effect.         *)
AllFaults == {"timeout", "synthesis", "retention", "db", "queue", "crash"}

ASSUME JobsAssumption == IsFiniteSet(Jobs) /\ Nobody \notin Jobs
ASSUME DurableAssumption == Durable \in BOOLEAN
ASSUME BoundsAssumption ==
    /\ MaxRetries \in Nat /\ MaxStops \in Nat
    /\ MaxOutages \in Nat /\ MaxSessions \in Nat
ASSUME FaultsAssumption == Faults \subseteq AllFaults

VARIABLES
    status,         \* tts_jobs.status; "none" and "deleted" without a row
    attempts,       \* tts_jobs.attempt_count
    audio,          \* the job's result.wav
    creating,       \* jobs that create_job has inserted and not enqueued yet
    queue,          \* messages that no consumer has read
    pending,        \* messages read by an earlier process, not acknowledged
    timers,         \* _enqueue_after tasks
    proc,           \* the backend process
    pc, current,    \* the dispatcher: control state, and the job it holds
    service,        \* the CosyVoice process
    serving,        \* the job whose request holds INFERENCE_LOCK
    abandoned,      \* requests waiting for the lock whose client has gone
    realtime,       \* InferenceGate._active_realtime
    stops, outages, sessions        \* how much of the bounds is used

rows == <<status, attempts>>
worker == <<pc, current>>
cosyvoice == <<service, serving, abandoned, audio>>
bounds == <<stops, outages, sessions>>
vars == <<rows, creating, queue, pending, timers, proc, worker, cosyvoice,
          realtime, bounds>>

-----------------------------------------------------------------------------
(* "expired" is never written: retention deletes the row.                  *)
Statuses == {"none", "queued", "running", "completed", "failed", "deleted"}
Finished == {"completed", "failed"}
Unfinished == {"queued", "running"}
Exists(j) == status[j] \notin {"none", "deleted"}

(* "dead": an exception has ended the dispatcher's task; "ended": it has   *)
(* returned because the manager is closing.                                *)
WorkPc == {"gate", "load", "mark", "send", "wait", "synth", "complete",
           "unavailable", "fail"}
HoldingPc == WorkPc \cup {"ack", "ackDie"}
Pc == HoldingPc \cup {"next", "ended", "dead"}
WorksOn(j) == pc \in WorkPc /\ current = j

Init ==
    /\ status = [j \in Jobs |-> "none"]
    /\ attempts = [j \in Jobs |-> 0]
    /\ audio = [j \in Jobs |-> "none"]
    /\ creating = {}
    /\ queue = <<>>
    /\ pending = [j \in Jobs |-> 0]
    /\ timers = [j \in Jobs |-> 0]
    /\ proc = "up"
    /\ pc = "next" /\ current = Nobody
    /\ service = "up"
    /\ serving = Nobody
    /\ abandoned = [j \in Jobs |-> 0]
    /\ realtime = 0
    /\ stops = 0 /\ outages = 0 /\ sessions = 0

SetStatus(j, s) == status' = [status EXCEPT ![j] = s]
Plus(f, j) == [f EXCEPT ![j] = @ + 1]
Minus(f, j) == [f EXCEPT ![j] = @ - 1]
Goto(p) == pc' = p /\ UNCHANGED current

-----------------------------------------------------------------------------
(* TtsManager.create_job: the row first, then the message.                 *)
CreateJob(j) ==
    /\ proc = "up"
    /\ status[j] = "none"
    /\ SetStatus(j, "queued")
    /\ creating' = creating \cup {j}
    /\ UNCHANGED <<attempts, queue, pending, timers, proc, worker, cosyvoice,
                   realtime, bounds>>

Enqueue(j) ==
    /\ j \in creating
    /\ creating' = creating \ {j}
    /\ \/ queue' = Append(queue, j)
       \/ "queue" \in Faults /\ UNCHANGED queue
    /\ UNCHANGED <<rows, pending, timers, proc, worker, cosyvoice, realtime,
                   bounds>>

(* _enqueue_after: the delay is over, or the manager is closing.           *)
TimerFires(j) ==
    /\ timers[j] > 0
    /\ timers' = Minus(timers, j)
    /\ \/ proc = "up" /\ queue' = Append(queue, j)
       \/ proc = "closing" /\ UNCHANGED queue
       \/ "queue" \in Faults /\ UNCHANGED queue
    /\ UNCHANGED <<rows, creating, pending, proc, worker, cosyvoice, realtime,
                   bounds>>

-----------------------------------------------------------------------------
(* TtsManager._run_queue                                                   *)

Deliver(j) ==
    /\ pc = "next"
    /\ proc # "down"
    /\ \/ queue # <<>> /\ j = Head(queue) /\ queue' = Tail(queue)
          /\ UNCHANGED pending
       \/ pending[j] > 0 /\ pending' = Minus(pending, j)   \* XAUTOCLAIM
          /\ UNCHANGED queue
    /\ pc' = "gate" /\ current' = j
    /\ UNCHANGED <<rows, creating, timers, proc, cosyvoice, realtime, bounds>>

StopConsuming ==
    /\ pc = "next"
    /\ proc = "closing"
    /\ Goto("ended")
    /\ UNCHANGED <<rows, creating, queue, pending, timers, proc, cosyvoice,
                   realtime, bounds>>

QueueRaises ==
    /\ pc = "next"
    /\ proc # "down"
    /\ "queue" \in Faults
    /\ Goto("dead")
    /\ UNCHANGED <<rows, creating, queue, pending, timers, proc, cosyvoice,
                   realtime, bounds>>

(* gate.wait_for_background_slot                                           *)
PassGate ==
    /\ pc = "gate"
    /\ realtime = 0
    /\ Goto("load")
    /\ UNCHANGED <<rows, creating, queue, pending, timers, proc, cosyvoice,
                   realtime, bounds>>

(* Mutant: a finished job is not recognised.                               *)
LoadUnguarded ==
    /\ pc = "load"
    /\ \/ Exists(current) /\ Goto("mark")
       \/ ~Exists(current) /\ Goto("fail")
    /\ UNCHANGED <<rows, creating, queue, pending, timers, proc, cosyvoice,
                   realtime, bounds>>

Load ==
    /\ pc = "load"
    /\ \/ status[current] \in Finished /\ Goto("ack")
       \/ status[current] \in Unfinished /\ Goto("mark")
       \/ ~Exists(current) /\ Goto("fail")
       \/ "db" \in Faults /\ Goto("fail")
    /\ UNCHANGED <<rows, creating, queue, pending, timers, proc, cosyvoice,
                   realtime, bounds>>

MarkRunning ==
    /\ pc = "mark"
    /\ \/ SetStatus(current, "running") /\ Goto("send")
       \/ "db" \in Faults /\ Goto("fail") /\ UNCHANGED status
    /\ UNCHANGED <<attempts, creating, queue, pending, timers, proc, cosyvoice,
                   realtime, bounds>>

(* require_voice and the request to the CosyVoice process                  *)
Send ==
    /\ pc = "send"
    /\ \/ service = "up" /\ Goto("wait")
       \/ service = "down" /\ Goto("unavailable")
       \/ "synthesis" \in Faults /\ Goto("fail")
    /\ UNCHANGED <<rows, creating, queue, pending, timers, proc, cosyvoice,
                   realtime, bounds>>

TimeOut ==
    /\ "timeout" \in Faults
    /\ pc \in {"wait", "synth"}
    /\ abandoned' = IF pc = "wait" THEN Plus(abandoned, current) ELSE abandoned
    /\ Goto("unavailable")
    /\ UNCHANGED <<rows, creating, queue, pending, timers, proc, service,
                   serving, audio, realtime, bounds>>

MarkCompleted ==
    /\ pc = "complete"
    /\ \/ SetStatus(current, "completed") /\ Goto("ack")
       \/ "db" \in Faults /\ Goto("fail") /\ UNCHANGED status
    /\ UNCHANGED <<attempts, creating, queue, pending, timers, proc, cosyvoice,
                   realtime, bounds>>

(* Mutant: the delayed enqueue is forgotten.                               *)
RetryForgotten ==
    /\ pc = "unavailable"
    /\ attempts[current] < MaxRetries
    /\ SetStatus(current, "queued")
    /\ attempts' = Plus(attempts, current)
    /\ Goto("ack")
    /\ UNCHANGED <<creating, queue, pending, timers, proc, cosyvoice, realtime,
                   bounds>>

(* Mutant: the job is queued again at once, and once more after the delay. *)
RetryTwice ==
    /\ pc = "unavailable"
    /\ attempts[current] < MaxRetries
    /\ SetStatus(current, "queued")
    /\ attempts' = Plus(attempts, current)
    /\ timers' = Plus(timers, current)
    /\ queue' = Append(queue, current)
    /\ Goto("ack")
    /\ UNCHANGED <<creating, pending, proc, cosyvoice, realtime, bounds>>

Retry ==
    /\ pc = "unavailable"
    /\ attempts[current] < MaxRetries
    /\ SetStatus(current, "queued")
    /\ attempts' = Plus(attempts, current)
    /\ timers' = Plus(timers, current)
    /\ Goto("ack")
    /\ UNCHANGED <<creating, queue, pending, proc, cosyvoice, realtime, bounds>>

GiveUp ==
    /\ pc = "unavailable"
    /\ attempts[current] = MaxRetries
    /\ Goto("fail")
    /\ UNCHANGED <<rows, creating, queue, pending, timers, proc, cosyvoice,
                   realtime, bounds>>

MarkFailed ==
    /\ pc = "fail"
    /\ Exists(current)
    /\ SetStatus(current, "failed")
    /\ Goto("ack")
    /\ UNCHANGED <<attempts, creating, queue, pending, timers, proc, cosyvoice,
                   realtime, bounds>>

(* An exception inside an except clause: finally acknowledges the message, *)
(* and the exception ends the task.                                        *)
HandlerRaises ==
    /\ \/ pc = "fail" /\ (~Exists(current) \/ "db" \in Faults)
       \/ pc = "unavailable" /\ "db" \in Faults
    /\ Goto("ackDie")
    /\ UNCHANGED <<rows, creating, queue, pending, timers, proc, cosyvoice,
                   realtime, bounds>>

Ack ==
    /\ pc \in {"ack", "ackDie"}
    /\ \/ /\ pc' = CASE pc = "ackDie" -> "dead"
                      [] proc = "closing" -> "ended"
                      [] OTHER -> "next"
          /\ UNCHANGED pending
       \/ /\ "queue" \in Faults
          /\ pc' = "dead"
          /\ pending' = IF Durable THEN Plus(pending, current) ELSE pending
    /\ current' = Nobody
    /\ UNCHANGED <<rows, creating, queue, timers, proc, cosyvoice, realtime,
                   bounds>>

Dispatch ==
    \/ \E j \in Jobs : Deliver(j)
    \/ PassGate \/ Load \/ MarkRunning \/ Send \/ MarkCompleted
    \/ Retry \/ GiveUp \/ MarkFailed \/ Ack

-----------------------------------------------------------------------------
(* The CosyVoice process: POST /synthesize runs under INFERENCE_LOCK, and  *)
(* which of the waiting threads gets the lock is not defined.              *)
UpService == service = "up" /\ UNCHANGED <<service, rows, creating, queue,
                                pending, timers, proc, realtime, bounds>>

Acquire ==
    /\ serving = Nobody
    /\ \/ pc = "wait" /\ serving' = current /\ Goto("synth")
          /\ UNCHANGED abandoned
       \/ \E j \in Jobs : /\ abandoned[j] > 0
                          /\ abandoned' = Minus(abandoned, j)
                          /\ serving' = j
                          /\ UNCHANGED worker
    /\ UNCHANGED audio
    /\ UpService

(* torchaudio.save writes the file in place.                               *)
WriteAudio ==
    /\ serving # Nobody
    /\ audio[serving] # "partial"
    /\ audio' = [audio EXCEPT ![serving] = "partial"]
    /\ UNCHANGED <<serving, abandoned, worker>>
    /\ UpService

(* Mutant: the request is answered before the file is complete.            *)
AnswerEarly ==
    /\ serving # Nobody
    /\ audio[serving] = "partial"
    /\ IF pc = "synth" THEN Goto("complete") ELSE UNCHANGED worker
    /\ serving' = Nobody
    /\ UNCHANGED <<audio, abandoned>>
    /\ UpService

Answer ==
    /\ serving # Nobody
    /\ audio[serving] = "partial"
    /\ audio' = [audio EXCEPT ![serving] = "whole"]
    /\ serving' = Nobody
    /\ IF pc = "synth" THEN Goto("complete") ELSE UNCHANGED worker
    /\ UNCHANGED abandoned
    /\ UpService

Refuse ==
    /\ "synthesis" \in Faults
    /\ serving # Nobody
    /\ serving' = Nobody
    /\ IF pc = "synth" THEN Goto("fail") ELSE UNCHANGED worker
    /\ UNCHANGED <<abandoned, audio>>
    /\ UpService

ServiceDown ==
    /\ service = "up"
    /\ outages < MaxOutages
    /\ outages' = outages + 1
    /\ service' = "down"
    /\ serving' = Nobody
    /\ abandoned' = [j \in Jobs |-> 0]
    /\ IF pc \in {"wait", "synth"} THEN Goto("unavailable") ELSE UNCHANGED worker
    /\ UNCHANGED <<rows, audio, creating, queue, pending, timers, proc,
                   realtime, stops, sessions>>

ServiceUp ==
    /\ service = "down"
    /\ service' = "up"
    /\ UNCHANGED <<rows, audio, creating, queue, pending, timers, proc, worker,
                   serving, abandoned, realtime, bounds>>

-----------------------------------------------------------------------------
(* Realtime sessions close the gate.                                       *)
SessionStarts ==
    /\ proc = "up"
    /\ sessions < MaxSessions
    /\ sessions' = sessions + 1
    /\ realtime' = realtime + 1
    /\ UNCHANGED <<rows, creating, queue, pending, timers, proc, worker,
                   cosyvoice, stops, outages>>

SessionEnds ==
    /\ realtime > 0
    /\ realtime' = realtime - 1
    /\ UNCHANGED <<rows, creating, queue, pending, timers, proc, worker,
                   cosyvoice, bounds>>

-----------------------------------------------------------------------------
(* The backend process.  What dies with it leaves the CosyVoice process    *)
(* serving a request nobody waits for, and Redis a message nobody          *)
(* acknowledges.                                                           *)

(* Once the open requests are answered, lifespan() closes the realtime     *)
(* manager, and with it its sessions, then the TTS manager, which waits    *)
(* for the dispatcher.                                                     *)
Close ==
    /\ proc = "up"
    /\ creating = {}
    /\ stops < MaxStops
    /\ stops' = stops + 1
    /\ proc' = "closing"
    /\ realtime' = 0
    /\ UNCHANGED <<rows, creating, queue, pending, timers, worker, cosyvoice,
                   outages, sessions>>

Vanish ==
    /\ proc' = "down"
    /\ creating' = {}
    /\ timers' = [j \in Jobs |-> 0]
    /\ queue' = IF Durable THEN queue ELSE <<>>
    /\ pending' = IF Durable /\ pc \in HoldingPc THEN Plus(pending, current)
                                                 ELSE pending
    /\ abandoned' = IF pc = "wait" THEN Plus(abandoned, current) ELSE abandoned
    /\ pc' = "next" /\ current' = Nobody
    /\ realtime' = 0
    /\ UNCHANGED <<rows, audio, service, serving, outages, sessions>>

Closed ==
    /\ proc = "closing"
    /\ pc \in {"ended", "dead"}
    /\ Vanish
    /\ UNCHANGED stops

Crash ==
    /\ "crash" \in Faults
    /\ proc # "down"
    /\ stops < MaxStops
    /\ stops' = stops + 1
    /\ Vanish

(* Every job of S in some order: list_queued_job_ids sorts by created_at.  *)
Listings(S) ==
    {s \in [1..Cardinality(S) -> S] : \A x \in S : \E i \in DOMAIN s : s[i] = x}

(* Mutant: mark_running_failed marks them interrupted, as JobRepository's  *)
(* method of that kind does.                                               *)
StartInterrupts ==
    /\ proc = "down"
    /\ proc' = "up"
    /\ status' = [j \in Jobs |-> IF status[j] = "running" THEN "interrupted"
                                                          ELSE status[j]]
    /\ \E s \in Listings({j \in Jobs : status[j] = "queued"}) :
          queue' = queue \o s
    /\ UNCHANGED <<attempts, audio, creating, pending, timers, worker, service,
                   serving, abandoned, realtime, bounds>>

(* Mutant: the rows that were running are left alone.                      *)
StartForgetsRunning ==
    /\ proc = "down"
    /\ proc' = "up"
    /\ \E s \in Listings({j \in Jobs : status[j] = "queued"}) :
          queue' = queue \o s
    /\ UNCHANGED <<rows, audio, creating, pending, timers, worker, service,
                   serving, abandoned, realtime, bounds>>

(* TtsManager.start: running rows are queued again, expired ones deleted   *)
(* with their files, and every queued job gets a message.                  *)
Start ==
    /\ proc = "down"
    /\ proc' = "up"
    /\ \E expired \in SUBSET {j \in Jobs : Exists(j)} :
          /\ expired = {} \/ "retention" \in Faults
          /\ status' = [j \in Jobs |->
                IF j \in expired THEN "deleted"
                ELSE IF status[j] = "running" THEN "queued" ELSE status[j]]
          /\ audio' = [j \in Jobs |->
                IF j \in expired THEN "none" ELSE audio[j]]
          /\ \E s \in Listings({j \in Jobs \ expired : status[j] \in Unfinished}) :
                queue' = queue \o s
    /\ UNCHANGED <<attempts, creating, pending, timers, worker, service,
                   serving, abandoned, realtime, bounds>>

-----------------------------------------------------------------------------
Next ==
    \/ \E j \in Jobs : CreateJob(j) \/ Enqueue(j) \/ TimerFires(j)
    \/ Dispatch \/ TimeOut \/ HandlerRaises \/ StopConsuming \/ QueueRaises
    \/ Acquire \/ WriteAudio \/ Answer \/ Refuse
    \/ ServiceDown \/ ServiceUp
    \/ SessionStarts \/ SessionEnds
    \/ Close \/ Closed \/ Crash \/ Start

(* The event loop resumes coroutines and timers; calls end; containers are *)
(* restarted; the CosyVoice process answers what it has been asked.        *)
Fairness ==
    /\ \A j \in Jobs : WF_vars(Enqueue(j)) /\ WF_vars(TimerFires(j))
    /\ WF_vars(Dispatch) /\ WF_vars(StopConsuming)
    /\ WF_vars(Acquire \/ WriteAudio \/ Answer)
    /\ WF_vars(ServiceUp) /\ WF_vars(SessionEnds)
    /\ WF_vars(Closed) /\ WF_vars(Start)

Spec == Init /\ [][Next]_vars /\ Fairness

-----------------------------------------------------------------------------
TypeOK ==
    /\ status \in [Jobs -> Statuses]
    /\ attempts \in [Jobs -> 0..MaxRetries]
    /\ audio \in [Jobs -> {"none", "partial", "whole"}]
    /\ creating \subseteq Jobs
    /\ queue \in Seq(Jobs)
    /\ pending \in [Jobs -> Nat]
    /\ timers \in [Jobs -> Nat]
    /\ proc \in {"up", "closing", "down"}
    /\ pc \in Pc
    /\ current \in Jobs \cup {Nobody}
    /\ service \in {"up", "down"}
    /\ serving \in Jobs \cup {Nobody}
    /\ abandoned \in [Jobs -> Nat]
    /\ realtime \in Nat
    /\ stops \in 0..MaxStops
    /\ outages \in 0..MaxOutages
    /\ sessions \in 0..MaxSessions

(* An accepted job that is not finished is never forgotten: something that *)
(* will lead the dispatcher to it exists in the queue, on its way there or *)
(* in the dispatcher itself, across retries, duplicates, shutdowns and     *)
(* crashes of either process, as long as the queue takes its messages and  *)
(* the dispatcher lives.                                                   *)
InQueue(j) == \E i \in DOMAIN queue : queue[i] = j
HasToken(j) ==
    \/ j \in creating \/ InQueue(j) \/ pending[j] > 0 \/ timers[j] > 0
    \/ WorksOn(j)

NoLostJob ==
    "queue" \notin Faults /\ proc = "up" /\ pc \notin {"ackDie", "dead"} =>
        \A j \in Jobs : status[j] \in Unfinished => HasToken(j)

(* With the in-memory queue a job has one token at a time, whatever fails: *)
(* its attempts follow one another, spaced by the retry delays.            *)
Tokens(j) ==
    Cardinality({i \in DOMAIN queue : queue[i] = j}) + pending[j] + timers[j]
    + (IF j \in creating THEN 1 ELSE 0) + (IF WorksOn(j) THEN 1 ELSE 0)

OneTokenPerJob == ~Durable => \A j \in Jobs : Tokens(j) <= 1

(* A completed job can be played: get_audio finds the whole recording,     *)
(* whatever answers, attempts and restarts came before.  The exception is  *)
(* a request that a timeout or a crash has abandoned, which rewrites the   *)
(* file after its retry has completed the job, or fails while it does.     *)
CompletedAudioIsWhole ==
    outages = 0 /\ "synthesis" \notin Faults =>
        \A j \in Jobs : status[j] = "completed" /\ serving # j =>
            audio[j] = "whole"

(* The answer the page shows is final: a second message of a finished job, *)
(* which a restart with a Redis queue leaves behind, does not run it again *)
(* or change its result.  Only retention removes it.                       *)
FinishedStaysFinished ==
    [][\A j \in Jobs : status[j] \in Finished =>
          "db" \in Faults \/ status'[j] \in {status[j], "deleted"}]_vars

(* Every accepted job is completed, failed or expires, as long as sessions *)
(* end, the process that is down comes up again, and no exception, of a    *)
(* statement or about a deleted row, ends the dispatcher.                  *)
EveryTtsJobEnds ==
    \A j \in Jobs :
        status[j] = "queued" ~> status[j] \in Finished \cup {"deleted"} \/ pc = "dead"

-----------------------------------------------------------------------------
(* The inductive invariant.                                                *)

(* What the dispatcher holds, and that a process that is down has none.    *)
DispatcherInv ==
    /\ pc \in HoldingPc => current \in Jobs
    /\ proc = "down" => pc = "next"

(* Past its test of the status, the dispatcher works on no finished job.   *)
OpenInv ==
    "db" \notin Faults /\ pc \in WorkPc \ {"gate", "load"} =>
        status[current] \notin Finished

IInv == TypeOK /\ DispatcherInv /\ NoLostJob /\ OpenInv
=============================================================================
