------------------------------ MODULE AsrService ------------------------------
(***************************************************************************)
(* The realtime half of the recognition service: AsrService.StreamRecognize*)
(* (server.py) assembles the frames of a stream into chunks (session.py)   *)
(* and hands them, one at a time, to BatchScheduler (scheduler.py), whose  *)
(* runner feeds batches to FunAsrStreamingEngine (engine.py).              *)
(*                                                                         *)
(* A frame is its sequence number and stands for FrameUnits units of       *)
(* audio, a chunk for ChunkUnits of them; audio is the sequence of the     *)
(* frame numbers its units came from.  Left out: texts, times, what the    *)
(* model decides to be the end of a sentence, metrics, and BufferError,    *)
(* which needs a chunk nearly as long as max_buffer_ms.                    *)
(***************************************************************************)
EXTENDS Integers, Sequences, FiniteSets, Subsequences

CONSTANTS
    Streams,        \* calls of StreamRecognize
    Keys, Key,      \* Key[s]: the "call:stream" of the frames of stream s
    FrameUnits, ChunkUnits,
    Window,         \* StreamingSessionState.reorder_window
    MaxBatch, MaxQueue,
    Faults,         \* among AllFaults
    MaxSequence     \* bound: the last sequence number of a stream's frames

(* "frame": a malformed frame, or one of another identity; "engine": the   *)
(* model raises; "client": the client cancels or goes away.                *)
AllFaults == {"frame", "engine", "client"}

ASSUME KeyAssumption == Key \in [Streams -> Keys]
ASSUME SizesAssumption ==
    {FrameUnits, ChunkUnits, MaxBatch, MaxQueue} \subseteq Nat \ {0}
ASSUME BoundsAssumption == Window \in Nat /\ MaxSequence \in [Streams -> Nat]
ASSUME FaultsAssumption == Faults \subseteq AllFaults

VARIABLES
    rpc,            \* the handler of each call
    first, next,    \* first and next sequence number expected; -1 before
    pending,        \* frames that came before their turn
    buffer,         \* audio of less than a chunk
    todo,           \* chunks of the frame being handled, to be submitted
    ending,         \* the frame being handled is the end of the stream
    future,         \* of the chunk a stream has submitted last
    queue,          \* BatchScheduler._queue
    batch,          \* what the runner has given to infer_batch
    caches,         \* keys of FunAsrStreamingEngine.sessions
    heard,          \* history: the audio the engine was fed of a stream that
                    \* has not been cut
    phase           \* of serve(): "up", "stopping", "stopped"

assembler == <<first, next, pending, buffer, todo, ending>>
scheduler == <<queue, batch, future>>
engine == <<caches, heard>>
vars == <<rpc, assembler, scheduler, engine, phase>>

Active == {"reading", "serving", "waiting"}

Init ==
    /\ rpc = [s \in Streams |-> "none"]
    /\ first = [s \in Streams |-> -1] /\ next = [s \in Streams |-> -1]
    /\ pending = [s \in Streams |-> {}]
    /\ buffer = [s \in Streams |-> <<>>] /\ todo = [s \in Streams |-> <<>>]
    /\ ending = [s \in Streams |-> FALSE]
    /\ future = [s \in Streams |-> "none"]
    /\ queue = <<>> /\ batch = <<>>
    /\ caches = {} /\ heard = [s \in Streams |-> <<>>]
    /\ phase = "up"

Goto(s, p) == rpc' = [rpc EXCEPT ![s] = p]

(* The call ends without its end frame, and its StreamingSessionState goes.*)
Cut(s) ==
    /\ Goto(s, "cut")
    /\ first' = [first EXCEPT ![s] = -1] /\ next' = [next EXCEPT ![s] = -1]
    /\ pending' = [pending EXCEPT ![s] = {}]
    /\ buffer' = [buffer EXCEPT ![s] = <<>>] /\ todo' = [todo EXCEPT ![s] = <<>>]
    /\ ending' = [ending EXCEPT ![s] = FALSE]
    /\ heard' = [heard EXCEPT ![s] = <<>>]

-----------------------------------------------------------------------------
(* StreamRecognize                                                         *)

Open(s) ==
    /\ phase = "up" /\ rpc[s] = "none"
    /\ Goto(s, "reading")
    /\ UNCHANGED <<assembler, scheduler, engine, phase>>

(* The audio of n frames from number a on.                                 *)
Audio(a, n) == [i \in 1..n * FrameUnits |-> a + (i - 1) \div FrameUnits]

(* Mutant: a frame that comes before its turn is not kept for it.          *)
PushForgets(s, q) ==
    LET a == IF next[s] = -1 THEN q ELSE next[s]
        new == IF q = a THEN {q} ELSE {}
        audio == buffer[s] \o Audio(a, Cardinality(new))
        n == Len(audio) \div ChunkUnits
    IN /\ q - a <= Window
       /\ first' = [first EXCEPT ![s] = IF @ = -1 THEN q ELSE @]
       /\ next' = [next EXCEPT ![s] = IF q > a THEN q + 1 ELSE a + Cardinality(new)]
       /\ buffer' = [buffer EXCEPT ![s] =
                        SubSeq(audio, n * ChunkUnits + 1, Len(audio))]
       /\ todo' = [todo EXCEPT ![s] = [i \in 1..n |->
             [audio |-> SubSeq(audio, (i - 1) * ChunkUnits + 1, i * ChunkUnits),
              final |-> FALSE]]]
       /\ UNCHANGED pending

(* StreamingSessionState.push: a frame seen before yields no chunk; a new  *)
(* one is kept until its turn, and whatever is in turn goes to the buffer, *)
(* from which whole chunks are taken.                                      *)
Push(s, q) ==
    LET a == IF next[s] = -1 THEN q ELSE next[s]
        known == q < a \/ q \in pending[s]
        frames == IF known THEN pending[s] ELSE pending[s] \cup {q}
        turn == {i \in frames : a..i \subseteq frames}
        audio == buffer[s] \o Audio(a, Cardinality(turn))
        n == Len(audio) \div ChunkUnits
    IN /\ known \/ q - a <= Window
       /\ first' = [first EXCEPT ![s] = IF @ = -1 THEN q ELSE @]
       /\ next' = [next EXCEPT ![s] = a + Cardinality(turn)]
       /\ pending' = [pending EXCEPT ![s] = frames \ turn]
       /\ buffer' = [buffer EXCEPT ![s] =
                        SubSeq(audio, n * ChunkUnits + 1, Len(audio))]
       /\ todo' = [todo EXCEPT ![s] = [i \in 1..n |->
             [audio |-> SubSeq(audio, (i - 1) * ChunkUnits + 1, i * ChunkUnits),
              final |-> FALSE]]]

Frame(s, q) ==
    /\ rpc[s] = "reading"
    /\ Push(s, q)
    /\ Goto(s, "serving")
    /\ UNCHANGED <<ending, scheduler, engine, phase>>

(* flush(force=True): what is left, or silence, is the final chunk.        *)
EndFrame(s) ==
    /\ rpc[s] = "reading"
    /\ pending[s] = {}
    /\ todo' = [todo EXCEPT ![s] = <<[audio |-> buffer[s], final |-> TRUE]>>]
    /\ buffer' = [buffer EXCEPT ![s] = <<>>]
    /\ ending' = [ending EXCEPT ![s] = TRUE]
    /\ Goto(s, "serving")
    /\ UNCHANGED <<first, next, pending, scheduler, engine, phase>>

(* The errors that abort the call with INVALID_ARGUMENT.                   *)
Invalid(s) ==
    \/ "frame" \in Faults
    \/ next[s] # -1 /\ MaxSequence[s] - next[s] > Window    \* too far ahead
    \/ pending[s] # {}                                      \* the end frame

Reject(s) ==
    /\ rpc[s] = "reading" /\ Invalid(s)
    /\ Cut(s)
    /\ UNCHANGED <<scheduler, caches, phase>>

(* BatchScheduler.submit; QueueFull aborts with RESOURCE_EXHAUSTED.        *)
Enqueue(s) ==
    /\ queue' = Append(queue, [stream |-> s, audio |-> Head(todo[s]).audio,
                                            final |-> Head(todo[s]).final])
    /\ todo' = [todo EXCEPT ![s] = Tail(@)]
    /\ future' = [future EXCEPT ![s] = "pending"]
    /\ Goto(s, "waiting")
    /\ UNCHANGED <<first, next, pending, buffer, ending, batch, engine, phase>>

Submit(s) ==
    /\ rpc[s] = "serving" /\ todo[s] # <<>>
    /\ Len(queue) < MaxQueue
    /\ Enqueue(s)

SubmitFull(s) ==
    /\ rpc[s] = "serving" /\ todo[s] # <<>>
    /\ Len(queue) >= MaxQueue
    /\ Cut(s)
    /\ UNCHANGED <<scheduler, caches, phase>>

(* The awaited future is done: an event for its chunk, or the exception.   *)
Awake(s) ==
    /\ rpc[s] = "waiting"
    /\ \/ /\ future[s] = "result"
          /\ Goto(s, "serving")
          /\ UNCHANGED <<assembler, heard>>
       \/ future[s] = "error" /\ Cut(s)
    /\ UNCHANGED <<scheduler, caches, phase>>

(* audio_ack of the frame                                                  *)
Acknowledge(s) ==
    /\ rpc[s] = "serving" /\ todo[s] = <<>>
    /\ Goto(s, IF ending[s] THEN "ended" ELSE "reading")
    /\ UNCHANGED <<assembler, scheduler, engine, phase>>

(* The call is cancelled, by the client or when the grace period of        *)
(* server.stop is over, or its requests end without an end_of_stream.      *)
Cancel(s) ==
    /\ rpc[s] \in Active
    /\ "client" \in Faults \/ phase = "stopping"
    /\ Cut(s)
    /\ future' = [future EXCEPT ![s] = IF @ = "pending" THEN "cancelled" ELSE @]
    /\ UNCHANGED <<queue, batch, caches, phase>>

-----------------------------------------------------------------------------
(* BatchScheduler.tick: in the order of the queue, the first chunk of each *)
(* session that is not cancelled, up to MaxBatch of them; cancelled items  *)
(* met on the way are dropped, the others keep their order.                *)
Cancelled(item) == future[item.stream] = "cancelled"
KeyOf(item) == Key[item.stream]
StreamsOf(items) == {items[i].stream : i \in DOMAIN items}

(* Mutant: the newest items are taken first.                               *)
Newest == {i \in DOMAIN queue :
    /\ ~Cancelled(queue[i])
    /\ \A j \in i + 1..Len(queue) :
          Cancelled(queue[j]) \/ KeyOf(queue[j]) # KeyOf(queue[i])}

Firsts == {i \in DOMAIN queue :
    /\ ~Cancelled(queue[i])
    /\ \A j \in 1..i - 1 : Cancelled(queue[j]) \/ KeyOf(queue[j]) # KeyOf(queue[i])}
Taken == {i \in Firsts : Cardinality({j \in Firsts : j < i}) < MaxBatch}
Dropped == {i \in DOMAIN queue :
    Cancelled(queue[i]) /\ Cardinality({j \in Taken : j < i}) < MaxBatch}
Only(I) == Chosen(queue, I)

(* Mutant: the deferred chunks are not put back.                           *)
TickForgets ==
    /\ phase # "stopped" /\ batch = <<>> /\ queue # <<>>
    /\ batch' = Only(Taken)
    /\ queue' = IF Cardinality(Taken) < MaxBatch THEN <<>>
                ELSE Only(DOMAIN queue \ (Taken \cup Dropped))
    /\ UNCHANGED <<future, rpc, assembler, engine, phase>>

Tick ==
    /\ phase # "stopped" /\ batch = <<>> /\ queue # <<>>
    /\ batch' = Only(Taken)
    /\ queue' = Only(DOMAIN queue \ (Taken \cup Dropped))
    /\ UNCHANGED <<future, rpc, assembler, engine, phase>>

(* FunAsrStreamingEngine._infer_sync for the first n items of the batch: a *)
(* session is opened on its first chunk and dropped after its final one.   *)
Items(n) == {batch[i] : i \in 1..n}

(* Mutant: sessions are never dropped.                                     *)
CachesKept(n) == caches \cup {KeyOf(x) : x \in Items(n)}

CachesAfter(n) ==
    (caches \cup {KeyOf(x) : x \in Items(n)})
        \ {KeyOf(x) : x \in {y \in Items(n) : y.final}}

HeardAfter(n) ==
    [s \in Streams |->
        IF rpc[s] = "waiting" /\ \E x \in Items(n) : x.stream = s
        THEN heard[s] \o (CHOOSE x \in Items(n) : x.stream = s).audio
        ELSE heard[s]]

Settle(outcome) ==
    future' = [s \in Streams |->
        IF s \in StreamsOf(batch) /\ future[s] = "pending" THEN outcome ELSE future[s]]

Recognize ==
    /\ batch # <<>>
    /\ caches' = CachesAfter(Len(batch))
    /\ heard' = HeardAfter(Len(batch))
    /\ Settle("result")
    /\ batch' = <<>>
    /\ UNCHANGED <<rpc, assembler, queue, phase>>

(* Mutant: an exception is not handed to the streams of the batch.         *)
EngineRaisesSilently ==
    /\ "engine" \in Faults /\ batch # <<>>
    /\ UNCHANGED <<caches, heard>>
    /\ batch' = <<>>
    /\ UNCHANGED <<future, rpc, assembler, queue, phase>>

(* The model raises on the n-th item, when its session was open or in      *)
(* opening it; every item of the batch gets the exception.                 *)
EngineRaises ==
    /\ "engine" \in Faults /\ batch # <<>>
    /\ \E n \in DOMAIN batch : \E opened \in SUBSET {KeyOf(batch[n])} :
          /\ caches' = CachesAfter(n - 1) \cup opened
          /\ heard' = HeardAfter(n - 1)
    /\ Settle("error")
    /\ batch' = <<>>
    /\ UNCHANGED <<rpc, assembler, queue, phase>>

-----------------------------------------------------------------------------
(* serve(): the server stops, which ends every call, then the scheduler.   *)
Stop ==
    /\ phase = "up"
    /\ phase' = "stopping"
    /\ UNCHANGED <<rpc, assembler, scheduler, engine>>

CloseScheduler ==
    /\ phase = "stopping"
    /\ \A s \in Streams : rpc[s] \notin Active
    /\ phase' = "stopped"
    /\ future' = [s \in Streams |->
          IF s \in StreamsOf(queue) /\ future[s] = "pending" THEN "error"
                                                             ELSE future[s]]
    /\ queue' = <<>> /\ batch' = <<>>
    /\ UNCHANGED <<rpc, assembler, engine>>

Handler(s) == Submit(s) \/ SubmitFull(s) \/ Awake(s) \/ Acknowledge(s)

Next ==
    \/ \E s \in Streams :
          \/ Open(s) \/ EndFrame(s) \/ Reject(s) \/ Handler(s) \/ Cancel(s)
          \/ \E q \in 0..MaxSequence[s] : Frame(s, q)
    \/ Tick \/ Recognize \/ EngineRaises
    \/ Stop \/ CloseScheduler

(* The event loop resumes handlers, the runner ticks, and the model        *)
(* returns.  No client is obliged to send anything.                        *)
Fairness ==
    /\ \A s \in Streams : WF_vars(Handler(s))
    /\ WF_vars(Tick) /\ WF_vars(Recognize \/ EngineRaises)

Spec == Init /\ [][Next]_vars /\ Fairness

-----------------------------------------------------------------------------
TypeOK ==
    /\ rpc \in [Streams -> Active \cup {"none", "ended", "cut"}]
    /\ ending \in [Streams -> BOOLEAN]
    /\ future \in [Streams -> {"none", "pending", "cancelled", "result", "error"}]
    /\ caches \subseteq Keys
    /\ phase \in {"up", "stopping", "stopped"}
    /\ \A s \in Streams :
          /\ first[s] \in -1..MaxSequence[s] /\ next[s] \in -1..MaxSequence[s] + 1
          /\ pending[s] \subseteq next[s] + 1..MaxSequence[s]
          /\ Len(buffer[s]) < ChunkUnits
    /\ Len(queue) <= MaxQueue /\ Len(batch) <= MaxBatch

(* A handler that waits for its chunk is waiting for something: the chunk  *)
(* is in the queue or in the batch, whatever other streams' cancellations, *)
(* a full batch, an engine error or the shutdown have done to them.        *)
AwaitedChunkExists ==
    \A s \in Streams : rpc[s] = "waiting" /\ future[s] = "pending" =>
        s \in StreamsOf(queue) \cup StreamsOf(batch)

(* The queue keeps to its bounds, and every chunk that is awaited.         *)
ChunksAreKept == TypeOK /\ AwaitedChunkExists

(* Between two frames, what the engine was fed and what waits in the       *)
(* buffer is the audio of the frames in order, each once, however they     *)
(* came; and a stream whose end was acknowledged has been heard entirely.  *)
HeardInOrder ==
    \A s \in Streams :
        rpc[s] \in {"reading", "ended"} /\ next[s] # -1 =>
            /\ heard[s] \o buffer[s] = Audio(first[s], next[s] - first[s])
            /\ rpc[s] = "ended" => buffer[s] = <<>>

(* When every stream of a session has ended as it should, the engine holds *)
(* no cache of it, although batches of two streams may have interleaved.   *)
EndedSessionIsForgotten ==
    \A k \in Keys :
        (\A s \in Streams : Key[s] = k => rpc[s] \in {"none", "ended"}) =>
            k \notin caches

(* The scheduler implements FairBatches: deferring chunks and skipping     *)
(* cancelled ones does not reorder a session's chunks, nor put two of them *)
(* into one batch, nor lose one.                                           *)
WaitingFor(k) == {i \in DOMAIN queue : KeyOf(queue[i]) = k /\ ~Cancelled(queue[i])}
LineOf(k) == Chosen([i \in DOMAIN queue |-> queue[i].stream], WaitingFor(k))

Batches == INSTANCE FairBatches WITH
    line <- [k \in Keys |-> LineOf(k)],
    batch <- StreamsOf(batch)
SchedulerSpec == Batches!Spec

(* Every frame that was read is acknowledged, or its call ends.            *)
FrameIsAnswered ==
    \A s \in Streams :
        rpc[s] \in {"serving", "waiting"} ~> rpc[s] \in {"reading", "ended", "cut"}
-----------------------------------------------------------------------------
(* The parts of the inductive invariant, with AwaitedChunkExists.          *)

Chunks == [audio : Seq(Nat), final : BOOLEAN]
QueueItems == [stream : Streams, audio : Seq(Nat), final : BOOLEAN]

TypeInv ==
    /\ TypeOK
    /\ first \in [Streams -> Int] /\ next \in [Streams -> Int]
    /\ pending \in [Streams -> SUBSET Nat]
    /\ buffer \in [Streams -> Seq(Nat)] /\ heard \in [Streams -> Seq(Nat)]
    /\ todo \in [Streams -> Seq(Chunks)]
    /\ queue \in Seq(QueueItems) /\ batch \in Seq(QueueItems)
    /\ \A s \in Streams :
          /\ next[s] = -1 => first[s] = -1 /\ pending[s] = {} /\ buffer[s] = <<>>
          /\ next[s] # -1 => first[s] \in 0..next[s]

(* A handler that is not waiting has had its result, or never asked.       *)
FutureInv ==
    \A s \in Streams :
        /\ rpc[s] = "waiting" => future[s] \in {"pending", "result", "error"}
        /\ rpc[s] = "cut" => future[s] # "pending"
        /\ rpc[s] \notin {"waiting", "cut"} => future[s] \in {"none", "result"}

(* A stream has at most one chunk with the scheduler, which is the last it *)
(* submitted, and the final one when the stream is ending.                 *)
Distinct(items) ==
    \A i, j \in DOMAIN items : items[i].stream = items[j].stream => i = j
Unsettled(items) ==
    \A i \in DOMAIN items :
        /\ future[items[i].stream] \in {"pending", "cancelled"}
        /\ future[items[i].stream] = "pending" =>
               items[i].final = ending[items[i].stream]

ItemInv ==
    /\ Distinct(queue) /\ Unsettled(queue)
    /\ Distinct(batch) /\ Unsettled(batch)
    /\ StreamsOf(queue) \cap StreamsOf(batch) = {}

(* The chunks of the frame being handled: the final one is the last.       *)
TodoInvOf(s) ==
    /\ \A i \in DOMAIN todo[s] : todo[s][i].final = ending[s]
    /\ ending[s] => Len(todo[s]) <= 1
    /\ ending[s] /\ rpc[s] = "waiting" => todo[s] = <<>>
    /\ rpc[s] \in {"none", "reading", "ended", "cut"} => todo[s] = <<>>
    /\ rpc[s] \in {"none", "reading", "cut"} => ~ending[s]
    /\ ~ending[s] => \A i \in DOMAIN todo[s] : Len(todo[s][i].audio) = ChunkUnits
    /\ ending[s] => buffer[s] = <<>>
    /\ rpc[s] = "ended" => ending[s]
TodoInv == \A s \in Streams : TodoInvOf(s)

(* audio is what follows the first b units of the frames from number a on. *)
Follows(audio, a, b) ==
    \A i \in DOMAIN audio : audio[i] = a + (b + i - 1) \div FrameUnits

(* Units of the frames in turn, and of these what is not yet submitted.    *)
Units(s) == IF next[s] = -1 THEN 0 ELSE (next[s] - first[s]) * FrameUnits
Unsent(s) ==
    Len(buffer[s]) + IF ending[s] THEN IF todo[s] = <<>> THEN 0 ELSE Len(todo[s][1].audio)
                                  ELSE Len(todo[s]) * ChunkUnits

(* What the scheduler holds.                                               *)
Held == {queue[i] : i \in DOMAIN queue} \cup {batch[i] : i \in DOMAIN batch}

(* Heard, submitted, to be submitted and buffered are one run of audio.    *)
AudioInvOf(s) ==
    LET sent == Units(s) - Unsent(s)
    IN /\ Follows(heard[s], first[s], 0)
       /\ \A i \in DOMAIN todo[s] :
             Follows(todo[s][i].audio, first[s], sent + (i - 1) * ChunkUnits)
       /\ Follows(buffer[s], first[s], Units(s) - Len(buffer[s]))
       /\ rpc[s] # "waiting" \/ future[s] = "result" => Len(heard[s]) = sent
       /\ \A x \in Held : x.stream = s /\ rpc[s] = "waiting" =>
             /\ Follows(x.audio, first[s], Len(heard[s]))
             /\ Len(heard[s]) + Len(x.audio) = sent
AudioInv == \A s \in Streams : future[s] # "error" => AudioInvOf(s)

(* What the engine keeps a cache for: a stream that was cut, or one whose  *)
(* final chunk is yet to come.                                             *)
Unfinished(s) ==
    \/ rpc[s] = "cut"
    \/ rpc[s] \in Active /\ (~ending[s] \/ todo[s] # <<>>)
    \/ rpc[s] = "waiting" /\ future[s] \in {"pending", "error"}
CacheInv == \A k \in caches : \E s \in Streams : Key[s] = k /\ Unfinished(s)
=============================================================================
