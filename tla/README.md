# Verification of the call analysis platform

TLA+ models of the platform's stateful parts, TLC runs that check them on small
instances, and TLAPS proofs of the results that matter most.

    tlasany M.tla                       # parse
    tlc -workers 2 -config R.cfg M      # one run (PROJECT.json pairs cfg and module)
    tlapm MProofs.tla                   # proofs

## 1. The system

| Part | Code | State | Operations |
|---|---|---|---|
| Analysis jobs | `app/jobs` | a row per job (`jobs`), error rows, coroutines, one executor thread | create (upload, URL, realtime), analyze, retry a module, restart |
| Session rows | `app/sessions/repository.py` | sessions, segments, artifacts (emotions, risks, quality, summary) | save and read each |
| Pipeline | `app/sessions/pipeline.py` | none | transcribe, analyze emotion, scan risks, score, summarize |
| Speech synthesis | `app/tts` | `tts_jobs`, `tts_voices`, a queue (memory or Redis stream), a dispatcher, timers | create job or voice, dispatch, retry, start, close |
| CosyVoice process | `tts_worker/server.py` | a lock, audio files | synthesize |
| Inference gate | `app/core/inference_gate.py` | a counter of realtime sessions | enter, leave, wait for zero |
| Realtime sessions | `app/realtime`, `app/api/realtime.py` | sessions by id, last sequence number, segments, recording | start, frame, pause, resume, map speakers, end, close |
| Recognition stream | `app/asr_rpc`, `asr_service/server.py`, `session.py` | two queues and a gRPC call; reorder buffer, chunk buffer | send a frame, push, flush |
| Batch scheduler | `asr_service/scheduler.py`, `engine.py` | bounded queue of chunks with futures, per-session caches | submit, tick, close |
| Sensitive words | `app/sensitive` | words and versions (SQL), a published scanner per tenant | create, update, delete, refresh, scan |
| PBX calls | `app/pbx`, `siprec-gateway` | call rows; jitter buffer, spool | start, update, push, append, acknowledge |
| What an analysis computes | `app/asr/sensevoice_provider.py`, `audio`, `emotion`, `quality`, `summary` | none | recognize a channel, merge, clips, score, summary requests |
| Browser | `frontend/src/composables` | refs, timers, generation counters, a WebSocket | poll, retry, stream, reconnect |

**How they interact.**  The browser creates jobs over HTTP and polls their rows;
it streams audio over a WebSocket into a realtime session, which streams it on
to the ASR service over gRPC, where the scheduler batches chunks of many
sessions.  The end of a realtime session creates an analysis job from its
recording.  A realtime session keeps the inference gate closed, which the
speech synthesis dispatcher waits for.  The dispatcher calls the CosyVoice
process over HTTP and shares audio files with it.  All rows are in one SQLite
database; every repository method is one transaction, or several.

**What is hard.**  Every `await` in the backend is a point where any other
coroutine runs, so what was read before it may be stale after it (retry of a
module, gate, start of a session).  One method may commit several transactions.
The processes crash separately: the backend loses coroutines and timers, keeps
rows and the Redis stream; CosyVoice goes on with requests nobody waits for.
Messages are delivered again after a restart.  One executor thread serves every
job.  Queues are bounded, sequence numbers have gaps, answers arrive late.
PROJECT.json lists each hazard at its line, with the properties that would
catch it.

**What makes each part correct.**

- Analysis jobs: what is shown as completed is stored; nothing is analyzed
  before its transcript; a finished job stays finished; a transcript is never
  taken back by a later failure; every job and every retry ends.
- Speech synthesis: an accepted job is never forgotten, a finished one never
  runs again, attempts do not overlap, a completed job has its whole recording.
- Realtime sessions: audio is recorded once, in order and without a gap, however
  often the connection is lost; what is not recorded yet is kept by the browser;
  a call that has ended is complete; the gate reopens after it.
- Recognition stream, scheduler: one answer for each chunk, in the order of the
  session, to the session that sent it; nobody waits for an answer that cannot
  come.
- Sensitive words: a scanner is the one of the newest version, and finds the
  leftmost-longest words; a list read page by page has every row once.
- What an analysis computes: no word of a channel is lost between the model's
  answer and the transcript, lines are apart and whole, every line is heard for
  its emotion and read for the summary.
- Gateway: frames leave the jitter buffer in order and once; unacknowledged
  frames survive a restart.
- Browser: what is shown belongs to the job, or session, the user last started.

## 2. Modules

| Module | What it is |
|---|---|
| `JobRecord` | abstract: the rows of a job as a polling client may see them change |
| `AnalysisJobs` | detailed: `JobManager`'s coroutines, executor, repositories; implements `JobRecord` |
| `MCAnalysisJobs` | what may fail in each run |
| `AnalysisJobsProofs` | theorems about what is computed from a recording (`Transcripts`) and about the jobs (`AnalysisJobs`) |
| `TtsJobs` | `TtsManager`, its queue, and the CosyVoice process |
| `MCTtsJobs` | symmetry set for TLC |
| `TtsJobsProofs` | theorems about `TtsJobs` |
| `RealtimeCall` | `useRealtimeSession`, its WebSockets, their handlers and one `RealtimeSession` |
| `MCRealtimeCall` | what may fail in each run |
| `RealtimeCallProofs` | theorems about `RealtimeCall` |
| `RecognitionClient` | `RpcRealtimeSession` over `AsrRpcStream`: senders, reader task, a call that fails |
| `RecognitionClientProofs` | theorems about `RecognitionClient` |
| `FairBatches` | abstract: a line of chunks for each recognition session, and batches of their heads |
| `AsrService` | detailed: `StreamRecognize`, chunks, `BatchScheduler`, the engine's sessions; implements `FairBatches` |
| `AsrServiceProofs` | theorems about `AsrService`, and that it implements `FairBatches` |
| `Subsequences` | pure: what is left of a sequence when some places are kept (`Chosen`), the numbers of a set in order (`Ascending`) |
| `SubsequencesProofs` | lemmas about them, about sequences that list a set (`Lists`), and about folds and joined sequences |
| `Matcher` | pure: the Aho-Corasick scanner, and what it should find |
| `SensitiveWords` | a tenant's words, the requests that change them, the scanner they publish |
| `Recognizer` | pure: from what the recognition model says to lines with times |
| `Transcripts` | the two-channel transcript, and what emotion, quality and summary make of it |
| `Pages` | the polling pages, `useAnalysisJob` and `useTts` |
| `PagesProofs` | theorems about `Pages` |
| `SensitiveWordsProofs` | theorems about `SensitiveWords` |
| `MCRecognitionClient`, `MCAsrService`, `MCSensitiveWords`, `MCTranscripts` | small instances, inputs and symmetry for TLC |

### AnalysisJobs

A step is what the event loop does between two awaits.  `main[j]` is the program
counter of `_download_and_analyze`, `_analyze` or `_analyze_realtime` of job `j`;
`run[j][o][m]` that of `_run_<m>` (or `_retry_<m>`) under owner `o`, which is
`Main` for the first analysis and a member of `Retries` for a retry.  The
variables `status`, `moduleStatus`, `moduleError`, `session`, `artifact` and
`quality` are the committed rows.  `set_module_status` commits the column and the
error row separately and is two steps (`...Err`).  `executor` is the work
submitted to the one-thread executor, oldest first; an awaiting coroutine goes on
when its item reached the front.  `MainRaises` and `RunRaises` let any awaited
transaction raise (`"db"` in `Faults`), and `MainHandler`/`RunHandler` say which
`except` clause catches it.  `Restart` kills the process at any point and runs
`mark_running_interrupted`.

### TtsJobs

`pc` and `current` are `_run_queue`'s program counter and the job whose message it
holds; `queue`, `pending` the unread and the unacknowledged messages (`pending`
only with Redis); `timers` the `_enqueue_after` tasks.  `serving`, `abandoned` and
`audio` are the CosyVoice process: the request that holds `INFERENCE_LOCK`, the
requests whose client is gone, and `result.wav`.  `Vanish` is what a process end
does to all of it, `Start` is `TtsManager.start`.  Realtime sessions are a counter
here.  The time of `next_attempt_at` and XAUTOCLAIM's 60 seconds are abstracted:
a timer may fire, and an old message be claimed, at any moment.

### RealtimeCall

The browser's half is `status`, `sequence`, `lastAck`, `buffered`, `socket`, and
one action per function and event of `useRealtimeSession.ts`.  Every connection it
ever opened keeps its handlers, as in the code, so an event of an old one still
changes the state that the new one uses; `socket` is the one that `socket?.send`
means.  `timers` are the reconnections that `scheduleReconnect` has scheduled: the
failure of a connection schedules two, one from `onclose` and one from the
rejected promise (`OpenFails`).  A connection that is closed before it was open is
`"closing"` until its `onerror` fires (`Aborts`), which schedules another one.  The
user may go to another page (`Unmount`: `onBeforeUnmount` closes the socket and
cancels no timer, so a reconnection may still open a connection) or close the tab
(`Leave`).  `up[k]` and `down[k]` are the messages under way on connection `k`.

The backend's half is one `handler[k]` per connection (`realtime_session`) over
the one session they share (`session`, `paused`, `lastSequence`, `recording`).
When a connection is lost (`Drop`), its handler may go on serving what it had
received while the next connection's handler runs beside it; it stops whenever it
notices.  An exception leaves the route and closes the connection (`Raises`):
`OpenSessionFails`, `AcceptRaises` (after the frame has been recorded),
`EndRaises` and `AnalysisFails` say where.  `gated` is membership of
`_gated_sessions`.

Not in it: what is recognized, sessions over the recognition service (see
`RecognitionClient`), `map_speakers`, risks, two calls on one page, and two
browsers in one session.

### RecognitionClient

Every connection's handler, and the manager at shutdown, is a sender on one
`AsrRpcStream`.  `send` puts a frame into `requests` and then takes events from
one `asyncio.Queue`: `events` holds what the reader task has put there, `getters`
the senders asleep in `get()`, `ready` those about to run, in the order asyncio
wakes them.  `want` and `got` are the sequence number and the transcripts of a
`send` under way; `segments` is what the session keeps.  The call may fail at any
point (`Fail`); the reader hands the exception over once.  The service's half is
two actions, `Serve` and `Fail`: `AsrService` has it.

### AsrService and FairBatches

A handler of `StreamRecognize` reads a frame (`Frame`, `EndFrame`, `Reject`),
assembles chunks (`Push`), submits one at a time and waits for its future
(`Submit`, `Awake`), then acknowledges.  `queue`, `batch` and `future` are the
scheduler's; `Tick` takes the first chunk of each session that is not cancelled
and keeps the others' order; `Recognize` and `EngineRaises` are the two ends of
`infer_batch`.  Audio is the sequence of the frame numbers that its units came
from, so that a byte lost, doubled or out of order shows.  Frame and chunk lengths
do not divide each other, as with the browser's frames and 200 ms chunks.

`FairBatches` forgets queue, ticks and cancelled items: each session has a line,
a batch takes the heads of some lines, a stream may leave its line.  The mapping
takes from `queue` the items of a session that are not cancelled; `SchedulerSpec`
is the abstract specification under it.

### Matcher and SensitiveWords

`Matcher` builds the automaton as `from_entries` does and scans with it: a node is
the prefix that leads to it, and `Climb` (the while loops), `FailLinks`, `Outputs`,
`Scanned` and `Selections` are recursive functions over nodes, places of the text
and hits.  `IsLeftmostLongest` says without an automaton what a scan finds.  `SensitiveWords` has `rows` and `version` (SQL),
and one program counter per request: commit, read words, read version, publish are
four steps between which other requests run.  The time of a new row is any time up
to the next one, because the code takes it before it has the write lock.  `cursor` and `listed` are a user who
pages through `list_words` meanwhile.  `Restart` loses the published scanners and
loads the file.  Characters fold by the constant `Fold`.

### Recognizer and Transcripts

A text is a sequence of clauses with their numbers of characters and marks: what
splitting, times and limits depend on, and nothing else.  `TranscribeFile` chooses
among the model's sentences, its timestamps, VAD intervals and the bare text, as
`sensevoice_provider.py` does, merges what belongs together and splits what is too
long; `Lasting` is the filter that VAD intervals and timestamps pass.  Two cases are
left out: text in front of the first tags of a tagged text, which is dropped where
VAD intervals are used (`sensevoice_provider.py:213`), and the one clause that two
joined blocks make when no mark ends the first (`:229`), which stays two clauses
here and can be cut between them.  `Transcripts`
runs it for the two channels (`Recognize`), locally or in the recognition service,
merges the lines, and then follows the emotions and the score, or the summary.  The
float ratio of timestamps to characters is exact here.

What a model may say (`Sayings`) includes times that run back, do not last or lie
outside the recording.  The properties say what they expect of it: `WellTimed`,
that times are in order and apart and, where sentences have times, that these
sentences are the text; `Aligned`, that there is a timestamp per character, or a
unit of time per character in an interval; `InRecording`, that nothing ends after
the recording; `InTime`, that nothing ends before what stands above it starts.

### Pages

One action of the user starts one coroutine, `chain[i]`: where it awaits, its job
and generation, the status it has read, and the answer on its way, taken from
`server` when the request is made and delivered at any later moment.  A retry is
accepted or refused (`Accepts`, `Refuses`) as `retry_module` decides: of a job with
a transcript, whether it runs, is completed or has failed (`"broken"`), and of a
module that is not running.  `page` says
which of the two pages it is: they have the same shape, but `useTts` does not look
at the generation after its await where `useAnalysisJob` does.  `shown`, `result`
and `error` are the refs the page displays.  `excused` becomes true when an answer
is written unchecked over a later action (section 5), after which the user does
no more.

## 3. Runs

Twelve runs: eleven must pass, and one ends in a violation (section 5).

| Run | What it asks | Shows |
|---|---|---|
| `jobs_core` | a job of either asynchronous source, one retry, failing downloads, recognition, models and summaries | a completed job lacks nothing, no analysis starts before the transcript, final states stay final; the rows implement `JobRecord`; every job and every retry ends |
| `jobs_db` | any transaction may raise, the disk refuse, the process die; no retries | nothing is completed without its result; siblings of a failed analysis neither break the executor nor take back the transcript; the quality score names the inputs it lacked |
| `tts_memory` | in-memory queue, two jobs, every fault but the queue's, one stop, outage and session | no job is forgotten; its attempts never overlap; every job ends |
| `tts_redis` | Redis queue, two jobs, timeouts, crash, raising queue | redelivered messages never rerun a finished job; a completed one has its whole recording |
| `rt_core` | three connections, two of them lost or refused, every fault, four frames and a buffer of three | the recording has no gap and no duplicate, the browser forgets nothing that is not in it, is never told of a gap, and shows "ended" only for a complete call |
| `rt_live` | three connections, two losses, pauses or raising frames, every fault | the gate reopens; while the microphone is on, every frame of the recording is known to be recorded in the end |
| `asr_client` | two connections of a session and the shutdown on one stream that may fail | an acknowledged frame was heard; senders that do not overlap lose no transcript and always end |
| `asr_service` | two streams of one session beside a third, frames in any order and twice, a queue of two, engine errors, cancellation, shutdown | audio is heard once and in order, whoever waits is in the queue or the batch, ended sessions leave no cache, every frame is answered, the scheduler implements `FairBatches` |
| `words` | two requests change and publish beside each other, a user pages, the backend restarts | a scanner has its own change, is current unless requests overlapped, and finds the leftmost-longest words; each row that stays is listed once |
| `transcripts` | about a thousand answers of the model for one channel against ten of the other, both routes | no word lost or doubled, lines whole and apart, each heard for its emotion and read for the summary; interruptions are the overlaps |
| `pages` | three actions on either page, retries of running, completed and failed jobs, answers delayed at will, failing requests | the page ends up showing the last job as the server has it, with one poll per generation, and does not wait for ever |
| `words_update` | changing a word succeeds | see section 5 |

Some runs check a conjunction of named properties: `WorkEnds` (`EveryJobEnds`,
`TranscribedJobCompletes`, `RetryEnds`), `QualityIsExplained`
(`QualityExplainsMissingInputs`, `QualityAfterInputs`), `RecordingInv` (`TypeOK`,
`RecordingIsWhole`, `NoGap`), `ChunksAreKept` (`TypeOK`, `AwaitedChunkExists`),
`AcksAreTrue` (`TypeOK`, `AckedIsHeard`), `PublicationInv` (`TypeOK`,
`ListHasOwnChange`, `ScannerIsCurrent`), `WordsAreKept` (`TypeOK`,
`NoWordIsLost`), `LinesAreWellCut` (`LinesAreApart`, `LinesAreSentences`),
`EveryLineIsRead` (`EveryLineIsHeard`, `SummaryHasEveryLine`) and `PollsInv`
(`TypeOK`, `OnePollOfAGeneration`).

**Bounds.**  One job is enough in `AnalysisJobs` for everything but contention for
the executor: rows of different jobs are disjoint, and the only thing jobs share,
the executor, is also shared by the analyses and the retry of one job.  One retry
coroutine beside the first analysis gives every pair of writers of one module.
Two TTS jobs are the least for a queue to have an order and for a job to wait
behind another; `MaxRetries = 1` has both branches of the retry test; one stop,
one outage and one session are what a single fault needs, and `tts_*` combines
them.  `RealtimeCall` needs three connections for two losses in a row, and four
frames for a buffer of three to overflow; what it says of gaps is for calls whose
buffer did not overflow (`NoGap`).  `MaxClicks = 2` is a pause and a resume, or two
impatient pauses.  Losses, refused connections, frames that raise and these clicks
share `MaxDrops = 2`: any two of them in one call.  `rt_live` has three connections
too, because a second loss can hit the repair of the first, and a buffer of two
with two frames, which is what a frame needs that stands behind another.  Faults are sets given in each cfg, and the properties they
exempt name them.

In `asr_service` a frame is two units and a chunk five, so that chunks end inside
frames; the stream whose frames come out of order has three of them and a window
of one, enough for a frame in its place, early, too early and twice; a queue and a
batch of two meet three streams.  `asr_client` needs two connections for events to
go to the wrong one, and four frames for one to be sent on each before and after.
In `words` two requests give every overlap; words are chosen so that some are
suffixes of other words' prefixes, fold to one another, are blank or too long, and
texts so that words occur that only a failure link or an output of a shorter node
finds, or that overlap.  An update, which fails, is tried
when no request is under way.  `transcripts` has lines of five characters at most,
so that two clauses fill one; pauses and lengths lie on either side of each limit.
`pages` needs three actions: a job, the one that supersedes it, and one more for a
retry of either; the user does no more, and no request fails, after an answer was
written unchecked, since the properties say nothing of the page then.  `MaxVersion`, `MaxRestarts`, `MaxSequence`, `MaxFrame` and
`MaxActions` bound what grows.

Deadlock is not checked: a job, a call or a stream comes to its end, and users may
stop clicking.

**Fairness.**  Weak fairness only.  The event loops of backend and browser resume
every coroutine and fire every timer; models, the summary service and CosyVoice
answer or time out (`httpx` timeouts, sixty seconds for the start of a session);
containers come up again (`restart: unless-stopped` in the compose file); a
realtime session ends (only in `TtsJobs`, whose bound counts them: `RealtimeCall`
assumes no such thing of its user).  In `RecognitionClient` the service handles
frames and the reader and the queue's waiters run; in `AsrService` handlers, the
runner and the model do; in `Pages` every request is answered or fails, every
timer fires, and every job on the server makes progress.  In `RealtimeCall` and
`Pages` the condition is about all these steps together (`Progress` in the one, the
coroutines and the server in the other): each of them uses up a message, a timer, a
connection or an answer, of which a behaviour has a bounded number, so that none
is put off for ever.  No fairness is assumed
of users, faults, losses, crashes or retention, nor that an attempt succeeds.
`SensitiveWords` and `Transcripts` state no liveness.

## 4. Proofs

`tlapm` proves, for all values of the constants that satisfy the modules'
assumptions:

| Module | Theorem | Property |
|---|---|---|
| `AnalysisJobsProofs` | `TypeCorrect` | `TypeOK` |
| | `CompletedHasArtifactHolds`, `AnalysisAfterTranscriptHolds`, `CompletedJobIsAnalyzedHolds`, `TranscriptIsKeptHolds`, `TerminalIsFinalHolds` | those of the same names |
| | `RunningModuleHasRunHolds`, `ExecutorMatchesAwaitsHolds` | those of the same names |
| | `QualityIsExplainedHolds` | `QualityIsExplained`, for `Retries = {}` |
| | `Refinement` | `RecordSpec`: without failed transactions, `AnalysisJobs` implements `JobRecord` |
| | `LinesKeepTheWords` | `WordsAreKept` (of `Transcripts`) |
| | `InterruptionsAreCounted` | `InterruptionsAreOverlaps` |
| | `LinesAreCutWell`, `EveryLineGetsRead` | `LinesAreWellCut`, `EveryLineIsRead` |
| `TtsJobsProofs` | `TypeCorrect` | `TypeOK` |
| | `NoLostJobHolds`, `OneTokenPerJobHolds`, `CompletedAudioIsWholeHolds`, `FinishedStaysFinishedHolds` | those of the same names |
| `RealtimeCallProofs` | `RecordingIsAStretch` | `RecordingInv` (`TypeOK`, `RecordingIsWhole`, `NoGap`) |
| | `FramesAreKept`, `EndedCallIsComplete` | `NoFrameIsForgotten`, `EndedIsComplete` |
| `RecognitionClientProofs` | `AcknowledgementsAreTrue` | `AcksAreTrue` (`TypeOK`, `AckedIsHeard`) |
| | `NoTranscriptIsLost` | `TranscriptsBecomeSegments` |
| `AsrServiceProofs` | `NoChunkIsLost` | `ChunksAreKept` (`TypeOK`, `AwaitedChunkExists`) |
| | `CachesAreDropped`, `AudioIsHeardInOrder` | `EndedSessionIsForgotten`, `HeardInOrder` |
| | `SchedulerIsFair` | `SchedulerSpec`: `AsrService` implements `FairBatches` |
| `PagesProofs` | `OneCoroutinePolls` | `PollsInv` (`TypeOK`, `OnePollOfAGeneration`) |
| | `PageSettles` | `SettledPageIsCurrent` |
| `SensitiveWordsProofs` | `PublicationHolds` | `PublicationInv` (`TypeOK`, `ListHasOwnChange`, `ScannerIsCurrent`) |
| | `EachRowIsListedOnce` | `ListedOnce` |
| | `ScannerFindsTheWords` | `ScansFindTheWords` |

So every safety property that the runs check is also a theorem,
under every fault and for any number of jobs, retries, stops, outages, connections,
frames, streams, sessions, actions, changes, requests, words and texts.  One theorem has a hypothesis on the
constants beside the modules' own: `QualityIsExplained` is about the first
analysis, because a retry of quality is accepted before its inputs are stored
(section 5), and TLC finds it violated with a retry; `Refinement` needs
transactions that do not raise, because one that does while a session is closed
fails a completed job.  The inductive invariants were checked with TLC on the runs'
instances before they were proved.

*The argument for `AnalysisJobs`.*  None of these invariants is inductive: that a
module is completed only with its result depends on the coroutine between storing
and marking having stored it.  `IInv` adds what each program counter knows of the
rows: before `tDone` the transcript is not completed, after it, it is
(`TranscribingPc`, `AnalyzingPc`); at `done` the artifact exists; past its mark a
module is no longer pending; when `_analyze` is about to complete a job, every one
of its analyses has finished.  `Locality` shows that a step of one job leaves the
others alone, `MainMove` and `RunMove` say what one step of a coroutine changes, and
`StepIInv` puts the parts together.  A retry beside the first analysis is why
`RunInv` is stated for each owner.  `TerminalIsFinal` needs `OpenInv`: a coroutine
that has a status to write has written no final one.  The refinement follows from
these at each step of `Next`.

Three more invariants stand beside `IInv`.  `WorkedInv` strengthens
`RunningModuleHasRun` to a coroutine in a state that has a status still to write
(`Unsettled`): one that is about to end would leave the module running.  When
`_analyze` starts its coroutines it must not overwrite one of those, so `EarlyInv`
says that the first analysis begins once: what it has not begun (`Unbegun`) is
idle.  `ScoreInv` follows the quality score from the statuses it waited for
(`SettlesInv`) over the inputs it read and the notes it made (`DraftInv`) to the
stored row.  The executor is `Lists(executor, Waiting)`: it holds each member of
`Waiting`, the coroutines that await it, once; every step is one of four `Moves`.

*The argument for `TtsJobs`.*  `NoLostJob` is nearly inductive: each step moves a
job's token (creating, queue, pending, timer, dispatcher) instead of dropping it.
`DispatcherInv` says that the dispatcher holds a job wherever it is said to work
on one, and that a process that is down has no dispatcher; `OpenInv` that past its
test of the status it holds no finished job.  For `OneTokenPerJob` counting is not
enough: `SingleInv` says that with the in-memory queue some set of jobs is listed
by the queue, once each, and that being listed, being created, having a timer and
being worked on exclude one another.  `AudioInv` ties the request being served to
the file: a partial recording belongs to the request that holds the lock, as long
as no request is refused or cut off by an outage; what the property exempts, it
exempts too.

*The argument for `RealtimeCall`.*  That the recording has no gap is a fact about
every message under way.  `TypeInv` bounds acknowledgements by `lastSequence` and
frames by `sequence`; `RecInv` says that the recording ends with `lastSequence`;
`KeptInv` that a frame which is neither in the buffer nor accepted was pushed out
of a full one.  The heart is `GapInv`: on each connection, each frame is covered by
what comes before it on that connection or has been accepted already
(`Follows`), and so is the end of the session (`EndFollows`), for a call without
pauses whose buffer did not overflow.  It holds although lost connections keep
their handlers, because sequence numbers accepted by one are not taken by another,
and because `resendBuffered` sends in order (`Ascending`).  The other parts say
what each connection carries: only the first starts the session (`StartInv`,
`NoneInv`, `FirstInv`, `WayInv`), nothing is captured after the end (`EndInv`), and
a closed session has everything (`ClosedInv`).

*The argument for `RecognitionClient`.*  What a sender receives is described over
`Coming`, the events on the wire and in the queue together.  `WaitInv` splits the
senders inside `get()` between `ready` and `getters`, each once; `HeardInv` bounds
each acknowledgement under way by what the service has handled; `OrderInv` says
that they ascend; `ErrorInv` that a failure is handed over once, and last.  While
no two senders overlap, `StoryInv` is an equation: segments, what the one sender
has got and the transcripts that are coming are, in this order, the service's
sentences.

*The argument for `AsrService`.*  `ItemInv` says that a stream has at most one
chunk that is not settled in queue and batch together; that makes the choice by
stream in `Only` well defined, and with `FutureInv` and `TodoInv` it gives
`AwaitedChunkExists`.  Order is a statement about audio: what was heard, what the
chunk under way has, what is still to be submitted and what is in the buffer are,
joined, the frames of the stream so far.  For the refinement, each session's line
is the `Chosen` items of the queue; `SubsequencesProofs` says what appending,
cancelling and taking the first item of each session do to a line.

*The argument for `Pages`.*  `Sound` says what each coroutine awaits: an answer
about a job that was created, in no generation later than the page's.  A coroutine
goes on in its own generation, or, if it retries a module, in a new one; with that
`OnePollOfAGeneration` is inductive.  `Shown` ties the page to the coroutine of the
last action: while it polls, nobody else has the page's generation (`Alone`), so
what others write unnoticed they write with `excused`, and when it is over without
an error the page shows its job as done, with the result.  The number of
generations is bounded by counting the retries that have not been answered yet.

*The argument for `SensitiveWords`.*  `HistoryInv` says that what the database has
now is in the history of every request that has committed, no entry of which is
newer than the version; so the words a request reads are in its history, and the
version it reads later is not older than they are.  `AloneInv` says that a request
that is alone is the only one at work, and has read what is still there; any other
request at work is a reason for the scanner to lag.  For the listing, `OlderOrder`
shows that time and identifier order the rows, `NewestFirstProperties` what a page
has: the newest rows in order, all others older than its last.  `ListInv` is then
inductive: the rows listed descend to the cursor, and a row that stays is among
them or older than the cursor.  Normalized forms are opaque in these proofs, which
therefore hold whatever they compute.

*The argument for the scanner.*  `ScannerInv` says that the published automaton is
the one of its list, and `ScanFinds` what its scan finds in any text.  A recursive
function is first shown to exist (`RecursionHasFunction`: of partial solutions that
agree, one for each rank), by least elements of sets of natural numbers, and then
followed by `RankInduction`, for every set that contains an element when it
contains those of lower rank.  The nodes are closed under prefixes (`NodesAreATrie`).
`Longest(nodes, n, t)` says that `n` is the longest node that `t` ends with;
`ClimbFinds` and `FollowFinds` that following the failure links and one character
keeps this true when the links of shorter nodes have it, `FailLinksFind` that
therefore all links lead to the longest node their node ends with, and
`OutputsFind` that the outputs are the words it ends with.  `ScannedFinds` takes
this along the text: after `i` characters the hits are the occurrences that end
there or before.  `RankEnumerates` shows that ordering hits by how many come before
them lists each once, and `SelectionsFind` that the loop of `_remove_overlaps`
selects what no selected hit before it overlaps.

*The argument for `Transcripts`.*  Here the difficulty is in the functions.  What
`FoldLeft` computes is first shown to be a run: values `f[0]`, ..., `f[n]`, each made
from the one before (`LeftFoldRuns`), along which any relation can be taken by
`CountingUp`.  `Divides` says of a splitting that its pieces are not empty and
joined are the text; it holds for `Sentences`, `ByClauses` and so `SplitSentences`
(`PiecesKeep`: a piece is added, or the last one grows).  `Before` counts the spoken
characters in front of a piece; it grows, and with it the rounded shares of time in
`Timed` and the indices in `FromTimestamps` (`First`, `Final`), which stay between 1
and the number of timestamps.  `MergeKeeps` follows the fragments into lines, of
which each reaches from the start of a fragment to the end of a later one.
`TranscribeKeeps` puts the three ways together and `MergedKeeps` the two channels:
sorting keeps each line.  `Heard` is the running end per speaker; that a line is
counted exactly when a line of the other speaker above it overlaps it is
`InterruptionsAreLate`, which needs starts in order and ends after starts.  The
invariant `AnalysisInv` says which function of `said` each result is.

That lines are apart needs exact arithmetic: where an interval has a unit of time
per character, rounding leaves each piece its own time (`RoundExact`, `TimedFits`),
and with a timestamp per character the index `First` is the next one and `Final`
the last of the sentence (`FirstFinalExact`); lines of one stretch stay within it
(`Between`), and stretches that are apart can be joined (`BetweenFlatten`).  For the
merge of fragments, `Cutting` says of any run of the fold where the lines begin,
that each is what its fragments make (`Piece`) and that the first of the next does
not fit; `CutsGroup` turns these cuts into the set of starts that `Grouped` asks for.
A line is `Audible` when it ends within the recording, or is short and begins in it
(the text without any time); that survives the merges, and `WindowFits` follows it
through `_emotion_window` and `slice_wav`.  The requests are `Packed`: their sizes,
a fold in the code and a sum over a set in the property (`SizeIsWeight`), keep to
the limit unless a line has one to itself (`ChunksFit`).

*What the proofs found.*  `EndedIsComplete` was stated without its exception for a
buffer that overflowed, and TLC agreed with it on its instance.  The proof attempt
failed where the server refuses the frame after the gap while the browser's
`end_session` is already on its way: the page then shows "ended" for a call that
lacks frames (`useRealtimeSession.ts:105` drops the oldest without telling the
user).  The property names this exception now.  Properties of
`Transcripts` said less than they should, or more: "aligned" counted broken
timestamps, whose omission leaves fewer than there are characters; and that every
line is heard was stated for a model that hears speech after the end of the
recording, of which `slice_wav` has nothing to give.  TLC's inputs had neither.

*Model-checked only.*  Liveness (the prover has no ENABLED): `WorkEnds`,
`EveryTtsJobEnds`, `GateReopens`, `FramesAreAcknowledged`, `SendEnds`,
`FrameIsAnswered`, `PageLearnsTheEnd`.  Induction over data with the library's theorems is out of
reach (they take operators as parameters); the proofs about the scanner and the
transcripts do without them, at the price of the lemmas above.

## 5. Where code and documents differ

`words_update` finds that changing an existing sensitive word never succeeds:
`UPDATE` has nine placeholders and eight values (`sensitive/repository.py:124`),
while `docs/API.md:150` promises the operation.

Other places where a document says something else than the code, which the models
reproduce and the properties leave open:

- The design of sensitive words says that matching unifies case, width and blanks,
  by one normalization of dictionary and call text
  (`docs/superpowers/specs/2026-07-17-sensitive-pbx-asr-cosyvoice-platform-design.md:19`,
  `:127`).  The scanner compares the words as they were entered with the text as it
  was recognized (`sensitive/automaton.py:33`, `:69`); `normalize_word` only decides
  what is too long, empty or there already.  So a word entered as "Ab" is not found
  in "ab", and nobody can enter "ab" beside it.  `ScansFindTheWords` says what the
  scan does with the characters it is given, not what the design promises.
- A design document says that jobs in process become interrupted after a restart.
  One whose first transcription waits for the executor is still `queued`, and stays
  so (`jobs/repository.py:216`).
- A failed module can be retried, says the repository's README; a retry of emotion
  or quality of a realtime call always fails, because it asks for two channels
  (`sessions/pipeline.py:155`).
- The plan of the CosyVoice container says that no attempts are used up while it is
  down; the dispatcher does not look at its health (`tts/manager.py:221`).
- Pausing is said to control the browser's capture only; frames under way are
  refused, and the refusal ends the call (`realtime/session.py:34`).
- A comment says that an old request must not overwrite a new one's result
  (`useAnalysisJob.ts:120`); the result of an old poll is written without a look at
  the generation (`:74`).  Without `excused`, TLC finds it on the page.

The models reproduce more behaviour that a reader may not expect, and that no run
reports:

- two retries of one module overlap (`jobs/manager.py:129`), and a quality retry is
  accepted before emotions and risks are stored (`:127`);
- a storage failure in `create_realtime_analysis` leaves a queued job (`:82`), and
  the session row's failure turns a completed job into a failed one (`:212`);
- the message of a job that retention deleted ends the dispatcher
  (`tts/manager.py:275`); the gate is not tested again before the request is sent
  (`:227`); a timed-out request goes on in CosyVoice beside its retry
  (`tts/provider.py:65`);
- a session whose browser has left stays open, and keeps the gate shut, for ever
  (`api/realtime.py:46`; a design document asks for thirty seconds); so does a gate
  entered for a session that could not be opened (`realtime/manager.py:62`);
- `session_started`, `session_paused` or `session_resumed` may arrive after the user
  has ended the call, or after an error, and set the page back to "recording" with
  the microphone off; ending such a call again creates a second analysis job
  (`realtime/manager.py:131`), and a call whose connection is lost while it ends
  shows "ending" for ever (`useRealtimeSession.ts:90`);
- a buffer of 500 frames that overflows drops the oldest silently
  (`useRealtimeSession.ts:105`); the server refuses what follows the gap, and a user
  who has clicked on End before the refusal comes is shown "ended" without it;
- frames captured before the first connection opened are never sent, unless that
  connection is lost before any other frame arrives;
- a frame that the browser knows to be recorded only from the number in
  `session_started` (`useRealtimeSession.ts:117`) stays in its buffer until a later
  frame is acknowledged, for ever if the call stays paused: its acknowledgement was
  lost twice, and it is not sent again (`:192`).  `FramesAreAcknowledged` counts it
  as known;
- leaving the page cancels no scheduled reconnection (`:246`), which then opens a
  connection for a page that nobody sees; a connection that is aborted while it
  opens schedules another one (`:202`), also when the session has ended;
- two senders that overlap on one recognition stream take each other's events: one
  keeps the other's transcripts, and may wait for ever (`asr_rpc/client.py:48`);
  once the failure of a call has been told, the next `send`, and the shutdown, wait
  for ever (`:80`);
- a stream that breaks leaves its caches in the engine, and one that comes back
  under the same name goes on in them (`asr_service/engine.py:65`);
- two requests that overlap may publish the older list of words last, and a restart
  leaves tenants with the file's words until somebody changes one (`main.py:57`);
- sentences whose times make no sense are dropped with their words; in an interval
  shorter than a unit of time per character the last line may start at the end of
  the recording, and the emotions of the whole call then fail
  (`sensevoice_provider.py:241`); the summary of partial summaries is not split
  however long they are; the remote route reports no silence and low noise, and
  accepts an empty transcript;
- a second click on submit while the first is under way, or a retry answered after
  it, can leave the page working for ever (`useAnalysisJob.ts:51`, `:111`);
  `attachJob` stops the old poll and lets its error escape, and keeps the old
  result; choosing a voice while a poll is under way leaves the synthesis page at
  "working" (`useTts.ts:78`).

## 6. Not modelled

Neural models, speaker clustering, compliance and text rules, ffmpeg and HTTP
downloads, configuration, authentication, presentation: they are stateless or pure
I/O, and appear as outcomes.  In the modelled parts: percentages of progress,
retention of analysis jobs, `wait()`/`close()` of `JobManager`, `create_voice`, the
health monitors (that of `useTts.ts:45` starts its next timer even when the page was
left while it waited), risks of realtime sessions, texts and times of recognition
events.  PBX calls and the gateway's libraries, which its `main.go` does not call
yet, are next.  PROJECT.json gives the reason for each component.

## 7. Plan

1. `Spool`, `JitterBuffer` and `PbxCalls`: 16-bit sequence numbers,
   acknowledgement, restart.
2. `SessionRisks`: `_persist_final_events` beside the analysis of the same session.
3. `Pages` over `JobRecord`, so that the refinement above carries over to
   `AnalysisJobs`.
