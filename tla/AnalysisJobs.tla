---------------------------- MODULE AnalysisJobs ----------------------------
(***************************************************************************)
(* The analysis jobs of the backend: JobManager's coroutines over the rows *)
(* that JobRepository and SessionRepository keep.                          *)
(*                                                                         *)
(* A step is what the event loop does between two awaits.  An awaited      *)
(* transaction takes effect in one step, so set_module_status, which       *)
(* commits the column and the error row in two transactions, takes two.    *)
(* The rows survive a crash; coroutines and the executor's queue do not.   *)
(*                                                                         *)
(* Abstracted: texts, codes and times.  A transcription, an emotion map, a *)
(* risk map and a summary are "stored or not"; a quality score keeps which *)
(* inputs it was computed from and which it declares unavailable.          *)
(***************************************************************************)
EXTENDS Naturals, Sequences

CONSTANTS
    Jobs,           \* job ids that may be submitted
    SourceTypes,    \* the ways a job may be submitted, among AllSourceTypes
    Retries,        \* retry coroutines that may be alive at once (a bound)
    RetryModules,   \* the modules a user asks to rerun, among Analyses
    Faults          \* the failures the environment may inject, among AllFaults

Main == "main"                          \* the owner of the first analysis
Owners == Retries \cup {Main}

AllSourceTypes == {"upload", "url", "realtime"}
Inputs == {"emotion", "risk"}                   \* what a quality score reads
Analyses == {"emotion", "risk", "quality", "summary"}
Modules == Analyses \cup {"transcript"}
Executed == {"emotion", "risk", "quality"}      \* modules that use the executor

(* "storage": the audio cannot be written, or is over the limit;           *)
(* "db": a transaction raises and has no effect.                           *)
AllFaults == {"storage", "download", "asr", "model", "summary", "db", "crash"}

ASSUME SourceTypesAssumption == SourceTypes \subseteq AllSourceTypes
ASSUME RetriesAssumption == Main \notin Retries
ASSUME RetryModulesAssumption == RetryModules \subseteq Analyses
ASSUME FaultsAssumption == Faults \subseteq AllFaults

VARIABLES
    status,         \* jobs.status; "none" before the row is inserted
    sourceType,     \* jobs.source_type
    source,         \* jobs.source_path is set, and the file is there
    moduleStatus,   \* jobs.<module>_status
    moduleError,    \* a row of job_module_errors exists
    session,        \* sessions.status
    artifact,       \* segments (for "transcript") or artifacts row stored
    quality,        \* the inputs the stored quality score used and disclaims
    main,           \* control state of the job's own coroutine
    run,            \* control state of _run_<module> under each owner
    draft,          \* the quality score an owner is computing
    executor        \* work submitted to the one-thread executor, oldest first

rows == <<status, sourceType, source, moduleStatus, moduleError, session,
          artifact, quality>>
vars == <<rows, main, run, draft, executor>>

-----------------------------------------------------------------------------
Statuses == {"queued", "running", "completed", "failed", "interrupted"}
ModuleStatuses == {"pending", "running", "completed", "failed"}
Terminal == {"completed", "failed", "interrupted"}
Settled == {"completed", "failed"}
Scores == [used : SUBSET Inputs, noted : SUBSET Inputs]
NoScore == [used |-> {}, noted |-> {}]
Items == Jobs \X Owners \X Modules             \* what the executor may hold

CreatePc == {"save", "reject", "source", "segments"}
DownloadPc == {"dlProgress", "download", "dlSource", "dlFail"}
TranscribePc == {"begin", "tRun", "tRunErr", "asr", "asrRun", "tSave",
                 "tDone", "tDoneErr", "tFail", "tFailErr"}
AnalyzePc == {"load", "progress", "gather", "quality", "complete", "close"}
MainPc == {"none", "fail", "end"} \cup CreatePc \cup DownloadPc
            \cup TranscribePc \cup AnalyzePc

(* "accept".."guardErr" occur under a retry only, "finished" and "raised"  *)
(* under the main coroutine only.                                          *)
RetryPc == {"accept", "acceptErr", "prep", "restore", "guard", "guardErr"}
AnalysisPc == {"mark", "markErr", "readEmotions", "readRisks", "work", "note",
               "save", "done", "doneErr", "fail", "failErr"}
RunPc == {"idle", "finished", "raised"} \cup RetryPc \cup AnalysisPc

Idle == [o \in Owners |-> [m \in Analyses |-> "idle"]]
Live(pc) == pc \notin {"idle", "finished", "raised"}

Init ==
    /\ status = [j \in Jobs |-> "none"]
    /\ sourceType \in [Jobs -> SourceTypes]
    /\ source = [j \in Jobs |-> FALSE]
    /\ moduleStatus = [j \in Jobs |-> [m \in Modules |-> "pending"]]
    /\ moduleError = [j \in Jobs |-> [m \in Modules |-> FALSE]]
    /\ session = [j \in Jobs |-> "none"]
    /\ artifact = [j \in Jobs |-> [m \in Modules |-> FALSE]]
    /\ quality = [j \in Jobs |-> NoScore]
    /\ main = [j \in Jobs |-> "none"]
    /\ run = [j \in Jobs |-> Idle]
    /\ draft = [j \in Jobs |-> [o \in Owners |-> NoScore]]
    /\ executor = <<>>

-----------------------------------------------------------------------------
(* The transactions of JobRepository and SessionRepository.                *)

SetStatus(j, s) == status' = [status EXCEPT ![j] = s]
SetColumn(j, m, s) == moduleStatus' = [moduleStatus EXCEPT ![j][m] = s]
SetError(j, m, b) == moduleError' = [moduleError EXCEPT ![j][m] = b]
SetSource(j) == source' = [source EXCEPT ![j] = TRUE]
SetSession(j, s) == session' = [session EXCEPT ![j] = s]
Store(j, m) == artifact' = [artifact EXCEPT ![j][m] = TRUE]

(* Moving on, and what moving on submits to the executor.                  *)
Goto(j, pc) == main' = [main EXCEPT ![j] = pc]
GotoRun(j, o, m, pc) == run' = [run EXCEPT ![j][o][m] = pc]
Submit(j, o, m) == executor' = Append(executor, <<j, o, m>>)
Working(j, o, m) == executor # <<>> /\ Head(executor) = <<j, o, m>>
Release == executor' = Tail(executor)

-----------------------------------------------------------------------------
(* JobManager.create_upload, create_url and create_realtime_analysis: the  *)
(* row is inserted first, then the audio is stored.                        *)

Create(j) ==
    /\ status[j] = "none"
    /\ SetStatus(j, "queued")
    /\ IF sourceType[j] = "realtime" THEN SetSession(j, "created")
                                     ELSE UNCHANGED session
    /\ Goto(j, IF sourceType[j] = "url" THEN "dlProgress" ELSE "save")
    /\ UNCHANGED <<sourceType, source, moduleStatus, moduleError, artifact,
                   quality, run, draft, executor>>

SaveAudio(j) ==
    /\ main[j] = "save"
    /\ \/ Goto(j, "source")
       \/ /\ "storage" \in Faults           \* too large: only uploads say so
          /\ sourceType[j] = "upload"
          /\ Goto(j, "reject")
       \/ /\ "storage" \in Faults           \* nothing catches the error
          /\ Goto(j, "end")
    /\ UNCHANGED <<rows, run, draft, executor>>

(* Mutant: a status the enumeration does not have.                        *)
RejectWithNewStatus(j) ==
    /\ main[j] = "reject"
    /\ SetStatus(j, "rejected")
    /\ Goto(j, "end")
    /\ UNCHANGED <<sourceType, source, moduleStatus, moduleError, session,
                   artifact, quality, run, draft, executor>>

RejectUpload(j) ==
    /\ main[j] = "reject"
    /\ SetStatus(j, "failed")
    /\ Goto(j, "end")
    /\ UNCHANGED <<sourceType, source, moduleStatus, moduleError, session,
                   artifact, quality, run, draft, executor>>

RecordSource(j) ==
    /\ main[j] \in {"source", "dlSource"}
    /\ SetSource(j)
    /\ Goto(j, IF sourceType[j] = "realtime" THEN "segments" ELSE "begin")
    /\ UNCHANGED <<status, sourceType, moduleStatus, moduleError, session,
                   artifact, quality, run, draft, executor>>

(* JobManager._download_and_analyze                                        *)
DownloadProgress(j) ==
    /\ main[j] = "dlProgress"
    /\ SetStatus(j, "running")
    /\ Goto(j, "download")
    /\ Submit(j, Main, "transcript")
    /\ UNCHANGED <<sourceType, source, moduleStatus, moduleError, session,
                   artifact, quality, run, draft>>

Download(j) ==
    /\ main[j] = "download"
    /\ Working(j, Main, "transcript")
    /\ \/ Goto(j, "dlSource")
       \/ "download" \in Faults /\ Goto(j, "dlFail")
    /\ Release
    /\ UNCHANGED <<rows, run, draft>>

-----------------------------------------------------------------------------
(* JobManager._analyze up to the stored transcript.                        *)

Begin(j) ==
    /\ main[j] = "begin"
    /\ SetSession(j, "created")
    /\ Goto(j, IF source[j] THEN "tRun" ELSE "tFail")
    /\ UNCHANGED <<status, sourceType, source, moduleStatus, moduleError,
                   artifact, quality, run, draft, executor>>

TranscriptRunning(j) ==
    \/ /\ main[j] = "tRun"
       /\ SetColumn(j, "transcript", "running")
       /\ Goto(j, "tRunErr")
       /\ UNCHANGED <<moduleError, executor>>
       /\ UNCHANGED <<status, sourceType, source, session, artifact, quality,
                      run, draft>>
    \/ /\ main[j] = "tRunErr"
       /\ SetError(j, "transcript", FALSE)
       /\ Goto(j, "asr")
       /\ Submit(j, Main, "transcript")
       /\ UNCHANGED moduleStatus
       /\ UNCHANGED <<status, sourceType, source, session, artifact, quality,
                      run, draft>>

(* pipeline.transcribe runs in the executor.  Its first act is a progress  *)
(* callback, which is what makes the job "running"; the later callbacks    *)
(* write the same status.                                                  *)
TranscribeProgress(j) ==
    /\ main[j] = "asr"
    /\ Working(j, Main, "transcript")
    /\ SetStatus(j, "running")
    /\ Goto(j, "asrRun")
    /\ UNCHANGED <<sourceType, source, moduleStatus, moduleError, session,
                   artifact, quality, run, draft, executor>>

Transcribe(j) ==
    /\ main[j] = "asrRun"
    /\ Working(j, Main, "transcript")
    /\ \/ Goto(j, "tSave")
       \/ "asr" \in Faults /\ Goto(j, "tFail")  \* a pipeline or layout error
       \/ "asr" \in Faults /\ Goto(j, "fail")   \* any other, e.g. of the RPC
    /\ Release
    /\ UNCHANGED <<rows, run, draft>>

SaveSegments(j) ==
    /\ main[j] \in {"tSave", "segments"}
    /\ Store(j, "transcript")
    /\ Goto(j, "tDone")
    /\ UNCHANGED <<status, sourceType, source, moduleStatus, moduleError,
                   session, quality, run, draft, executor>>

TranscriptCompleted(j) ==
    \/ /\ main[j] = "tDone"
       /\ SetColumn(j, "transcript", "completed")
       /\ Goto(j, "tDoneErr")
       /\ UNCHANGED <<moduleError, executor>>
       /\ UNCHANGED <<status, sourceType, source, session, artifact, quality,
                      run, draft>>
    \/ /\ main[j] = "tDoneErr"
       /\ SetError(j, "transcript", FALSE)
       /\ IF sourceType[j] = "realtime"
             THEN Goto(j, "load") /\ Submit(j, Main, "transcript")
             ELSE Goto(j, "progress") /\ UNCHANGED executor
       /\ UNCHANGED moduleStatus
       /\ UNCHANGED <<status, sourceType, source, session, artifact, quality,
                      run, draft>>

TranscriptFailed(j) ==
    \/ /\ main[j] = "tFail"
       /\ SetColumn(j, "transcript", "failed")
       /\ Goto(j, "tFailErr")
       /\ UNCHANGED moduleError
       /\ UNCHANGED <<status, sourceType, source, session, artifact, quality,
                      run, draft, executor>>
    \/ /\ main[j] = "tFailErr"
       /\ SetError(j, "transcript", TRUE)
       /\ Goto(j, "fail")
       /\ UNCHANGED moduleStatus
       /\ UNCHANGED <<status, sourceType, source, session, artifact, quality,
                      run, draft, executor>>

(* JobManager._analyze_realtime: transcription_from_mono                   *)
LoadMono(j) ==
    /\ main[j] = "load"
    /\ Working(j, Main, "transcript")
    /\ \/ Goto(j, "progress")
       \/ "model" \in Faults /\ Goto(j, "fail")
    /\ Release
    /\ UNCHANGED <<rows, run, draft>>

-----------------------------------------------------------------------------
(* The analyses of the main coroutine: three gathered, then quality.       *)

(* Mutant: quality is gathered with the others.                           *)
AnalyzeAllAtOnce(j) ==
    /\ main[j] = "progress"
    /\ SetStatus(j, "running")
    /\ Goto(j, "gather")
    /\ run' = [run EXCEPT ![j][Main] = [m \in Analyses |-> "mark"]]
    /\ UNCHANGED <<sourceType, source, moduleStatus, moduleError, session,
                   artifact, quality, draft, executor>>

AnalyzeProgress(j) ==
    /\ main[j] = "progress"
    /\ SetStatus(j, "running")
    /\ Goto(j, "gather")
    /\ run' = [run EXCEPT ![j][Main] =
                 [m \in Analyses |-> IF m = "quality" THEN "idle" ELSE "mark"]]
    /\ UNCHANGED <<sourceType, source, moduleStatus, moduleError, session,
                   artifact, quality, draft, executor>>

(* Mutant: asyncio.wait(FIRST_COMPLETED) for gather.                      *)
GatherFirst(j) ==
    /\ main[j] = "gather"
    /\ \/ /\ \E m \in Analyses \ {"quality"} : run[j][Main][m] = "finished"
          /\ Goto(j, "quality")
          /\ GotoRun(j, Main, "quality", "mark")
       \/ /\ \E m \in Analyses : run[j][Main][m] = "raised"
          /\ Goto(j, "fail")
          /\ UNCHANGED run
    /\ UNCHANGED <<rows, draft, executor>>

(* asyncio.gather hands on the first exception and leaves the siblings     *)
(* running.                                                                *)
Gather(j) ==
    /\ main[j] = "gather"
    /\ \/ /\ \A m \in Analyses \ {"quality"} : run[j][Main][m] = "finished"
          /\ Goto(j, "quality")
          /\ GotoRun(j, Main, "quality", "mark")
       \/ /\ \E m \in Analyses : run[j][Main][m] = "raised"
          /\ Goto(j, "fail")
          /\ UNCHANGED run
    /\ UNCHANGED <<rows, draft, executor>>

QualityReturns(j) ==
    /\ main[j] = "quality"
    /\ \/ run[j][Main]["quality"] = "finished" /\ Goto(j, "complete")
       \/ run[j][Main]["quality"] = "raised" /\ Goto(j, "fail")
    /\ UNCHANGED <<rows, run, draft, executor>>

Complete(j) ==
    /\ main[j] = "complete"
    /\ SetStatus(j, "completed")
    /\ Goto(j, "close")
    /\ UNCHANGED <<sourceType, source, moduleStatus, moduleError, session,
                   artifact, quality, run, draft, executor>>

CloseSession(j) ==
    /\ main[j] = "close"
    /\ SetSession(j, "completed")
    /\ Goto(j, "end")
    /\ UNCHANGED <<status, sourceType, source, moduleStatus, moduleError,
                   artifact, quality, run, draft, executor>>

FailJob(j) ==
    /\ main[j] \in {"fail", "dlFail"}
    /\ SetStatus(j, "failed")
    /\ Goto(j, "end")
    /\ UNCHANGED <<sourceType, source, moduleStatus, moduleError, session,
                   artifact, quality, run, draft, executor>>

(* Mutant: any error is handled as an error of the pipeline.               *)
MainHandlerBlamesTranscript(j) ==
    LET pc == main[j]
        outer == IF sourceType[j] = "url" THEN "dlFail" ELSE "end"
    IN  CASE pc \in {"reject", "source", "segments", "dlFail"} -> "end"
          [] pc \in {"dlProgress", "dlSource"} -> "dlFail"
          [] pc \in {"tFail", "tFailErr", "fail"} -> outer
          [] pc \in {"tDone", "tDoneErr"} /\ sourceType[j] = "realtime" -> "end"
          [] OTHER -> "tFail"

(* Where an exception raised by the transaction awaited at pc is caught:   *)
(* the generic handler of _analyze, the one of _download_and_analyze       *)
(* around it, or nowhere.                                                  *)
MainHandler(j) ==
    LET pc == main[j]
        outer == IF sourceType[j] = "url" THEN "dlFail" ELSE "end"
    IN  CASE pc \in {"reject", "source", "segments", "dlFail"} -> "end"
          [] pc \in {"dlProgress", "dlSource"} -> "dlFail"
          [] pc \in {"tFail", "tFailErr", "fail"} -> outer
          [] pc \in {"tDone", "tDoneErr"} /\ sourceType[j] = "realtime" -> "end"
          [] OTHER -> "fail"

Awaited == {"reject", "source", "segments", "dlProgress", "dlSource", "dlFail",
            "begin", "tRun", "tRunErr", "asr", "tSave", "tDone", "tDoneErr",
            "tFail", "tFailErr", "progress", "complete", "close", "fail"}

MainRaises(j) ==
    /\ "db" \in Faults
    /\ main[j] \in Awaited
    /\ main[j] = "asr" => Working(j, Main, "transcript")
    /\ Goto(j, MainHandler(j))
    /\ IF main[j] = "asr" THEN Release ELSE UNCHANGED executor
    /\ UNCHANGED <<rows, run, draft>>

MainStep(j) ==
    \/ SaveAudio(j) \/ RejectUpload(j) \/ RecordSource(j)
    \/ DownloadProgress(j) \/ Download(j)
    \/ Begin(j) \/ TranscriptRunning(j) \/ TranscribeProgress(j)
    \/ Transcribe(j) \/ SaveSegments(j) \/ TranscriptCompleted(j)
    \/ TranscriptFailed(j) \/ LoadMono(j) \/ AnalyzeProgress(j) \/ Gather(j)
    \/ QualityReturns(j) \/ Complete(j) \/ CloseSession(j) \/ FailJob(j)
    \/ MainRaises(j)

-----------------------------------------------------------------------------
(* JobManager._run_emotion, _run_risk, _run_quality and _run_summary, under *)
(* the main coroutine or a retry.                                           *)

End(o) == IF o = Main THEN "finished" ELSE "idle"

Mark(j, o, m) ==
    /\ run[j][o][m] = "mark"
    /\ SetColumn(j, m, "running")
    /\ GotoRun(j, o, m, "markErr")
    /\ UNCHANGED <<status, sourceType, source, moduleError, session, artifact,
                   quality, main, draft, executor>>

(* Mutant: the score is submitted before its segments are read.           *)
MarkErrSubmitsAll(j, o, m) ==
    /\ run[j][o][m] = "markErr"
    /\ SetError(j, m, FALSE)
    /\ GotoRun(j, o, m, IF m = "quality" THEN "readEmotions" ELSE "work")
    /\ IF m \in Executed THEN Submit(j, o, m) ELSE UNCHANGED executor
    /\ UNCHANGED <<status, sourceType, source, moduleStatus, session, artifact,
                   quality, main, draft>>

MarkErr(j, o, m) ==
    /\ run[j][o][m] = "markErr"
    /\ SetError(j, m, FALSE)
    /\ IF m = "quality"
          THEN GotoRun(j, o, m, "readEmotions") /\ UNCHANGED executor
          ELSE /\ GotoRun(j, o, m, "work")
               /\ IF m \in Executed THEN Submit(j, o, m) ELSE UNCHANGED executor
    /\ UNCHANGED <<status, sourceType, source, moduleStatus, session, artifact,
                   quality, main, draft>>

(* list_enriched_segments reads the two artifacts one after the other.     *)
SetDraft(j, o, d) == draft' = [draft EXCEPT ![j][o] = d]
Stored(j, x) == IF artifact[j][x] THEN {x} ELSE {}

ReadEmotions(j, o) ==
    /\ run[j][o]["quality"] = "readEmotions"
    /\ SetDraft(j, o, [used |-> Stored(j, "emotion"), noted |-> {}])
    /\ GotoRun(j, o, "quality", "readRisks")
    /\ UNCHANGED <<rows, main, executor>>

ReadRisks(j, o) ==
    /\ run[j][o]["quality"] = "readRisks"
    /\ SetDraft(j, o, [draft[j][o] EXCEPT !.used = @ \cup Stored(j, "risk")])
    /\ GotoRun(j, o, "quality", "work")
    /\ Submit(j, o, "quality")
    /\ UNCHANGED <<rows, main>>

(* Mutant: the column is written, the artifact is not.                    *)
WorkDoneFirst(j, o, m) ==
    /\ run[j][o][m] = "work"
    /\ IF m \in Executed THEN Working(j, o, m) /\ Release ELSE UNCHANGED executor
    /\ \/ GotoRun(j, o, m, IF m = "quality" THEN "note" ELSE "done")
       \/ /\ (IF m = "summary" THEN "summary" ELSE "model") \in Faults
          /\ GotoRun(j, o, m, "fail")
    /\ UNCHANGED <<rows, main, draft>>

(* The model, or for a summary the language-model service, answers.        *)
Work(j, o, m) ==
    /\ run[j][o][m] = "work"
    /\ IF m \in Executed THEN Working(j, o, m) /\ Release ELSE UNCHANGED executor
    /\ \/ GotoRun(j, o, m, IF m = "quality" THEN "note" ELSE "save")
       \/ /\ (IF m = "summary" THEN "summary" ELSE "model") \in Faults
          /\ GotoRun(j, o, m, "fail")
    /\ UNCHANGED <<rows, main, draft>>

(* The record is read only now: the score disclaims what has failed.       *)
Note(j, o) ==
    /\ run[j][o]["quality"] = "note"
    /\ SetDraft(j, o, [draft[j][o] EXCEPT !.noted =
                          {x \in Inputs : moduleStatus[j][x] = "failed"}])
    /\ GotoRun(j, o, "quality", "save")
    /\ UNCHANGED <<rows, main, executor>>

Save(j, o, m) ==
    /\ run[j][o][m] = "save"
    /\ Store(j, m)
    /\ quality' = IF m = "quality" THEN [quality EXCEPT ![j] = draft[j][o]]
                                   ELSE quality
    /\ SetDraft(j, o, NoScore)
    /\ GotoRun(j, o, m, "done")
    /\ UNCHANGED <<status, sourceType, source, moduleStatus, moduleError,
                   session, main, executor>>

Done(j, o, m) ==
    /\ run[j][o][m] = "done"
    /\ SetColumn(j, m, "completed")
    /\ GotoRun(j, o, m, "doneErr")
    /\ UNCHANGED <<status, sourceType, source, moduleError, session, artifact,
                   quality, main, draft, executor>>

DoneErr(j, o, m) ==
    /\ run[j][o][m] = "doneErr"
    /\ SetError(j, m, FALSE)
    /\ GotoRun(j, o, m, End(o))
    /\ UNCHANGED <<status, sourceType, source, moduleStatus, session, artifact,
                   quality, main, draft, executor>>

(* Mutant: the failure of an analysis fails its job as well.               *)
FailFailsJob(j, o, m) ==
    /\ run[j][o][m] \in {"fail", "guard"}
    /\ SetColumn(j, m, "failed")
    /\ SetStatus(j, "failed")
    /\ GotoRun(j, o, m, IF run[j][o][m] = "fail" THEN "failErr" ELSE "guardErr")
    /\ UNCHANGED <<sourceType, source, moduleError, session, artifact, quality,
                   main, draft, executor>>

(* set_module_status(failed) in _run_<module>, or in _retry_guarded        *)
Fail(j, o, m) ==
    /\ run[j][o][m] \in {"fail", "guard"}
    /\ SetColumn(j, m, "failed")
    /\ GotoRun(j, o, m, IF run[j][o][m] = "fail" THEN "failErr" ELSE "guardErr")
    /\ UNCHANGED <<status, sourceType, source, moduleError, session, artifact,
                   quality, main, draft, executor>>

(* Mutant: _run_<module> raises again after recording the failure.        *)
FailErrRaises(j, o, m) ==
    /\ run[j][o][m] \in {"failErr", "guardErr"}
    /\ SetError(j, m, TRUE)
    /\ GotoRun(j, o, m, IF o = Main THEN "raised" ELSE "idle")
    /\ UNCHANGED <<status, sourceType, source, moduleStatus, session, artifact,
                   quality, main, draft, executor>>

FailErr(j, o, m) ==
    /\ run[j][o][m] \in {"failErr", "guardErr"}
    /\ SetError(j, m, TRUE)
    /\ GotoRun(j, o, m, End(o))
    /\ UNCHANGED <<status, sourceType, source, moduleStatus, session, artifact,
                   quality, main, draft, executor>>

-----------------------------------------------------------------------------
(* JobManager.retry_module: the statuses are read, and later written.      *)

(* Mutant: transcript_status is not looked at.                            *)
RequestRetryEarly(j, r, m) ==
    /\ \A x \in Analyses : run[j][r][x] = "idle"
    /\ status[j] # "none"
    /\ moduleStatus[j][m] # "running"
    /\ GotoRun(j, r, m, "accept")
    /\ UNCHANGED <<rows, main, draft, executor>>

RequestRetry(j, r, m) ==
    /\ \A x \in Analyses : run[j][r][x] = "idle"
    /\ moduleStatus[j]["transcript"] = "completed"
    /\ moduleStatus[j][m] # "running"
    /\ GotoRun(j, r, m, "accept")
    /\ UNCHANGED <<rows, main, draft, executor>>

(* Mutant: a retry starts from "pending" again.                           *)
AcceptAsPending(j, r, m) ==
    /\ run[j][r][m] = "accept"
    /\ SetColumn(j, m, "pending")
    /\ GotoRun(j, r, m, "acceptErr")
    /\ UNCHANGED <<status, sourceType, source, moduleError, session, artifact,
                   quality, main, draft, executor>>

Accept(j, r, m) ==
    /\ run[j][r][m] = "accept"
    /\ SetColumn(j, m, "running")
    /\ GotoRun(j, r, m, "acceptErr")
    /\ UNCHANGED <<status, sourceType, source, moduleError, session, artifact,
                   quality, main, draft, executor>>

AcceptErr(j, r, m) ==
    /\ run[j][r][m] = "acceptErr"
    /\ SetError(j, m, FALSE)
    /\ GotoRun(j, r, m, "prep")
    /\ UNCHANGED <<status, sourceType, source, moduleStatus, session, artifact,
                   quality, main, draft, executor>>

(* _retry_emotion and _retry_quality decode the recording again in the     *)
(* executor; _retry_risk and _retry_summary only read the segments.        *)
Prepare(j, r, m) ==
    /\ run[j][r][m] = "prep"
    /\ IF m \in {"emotion", "quality"}
          THEN IF source[j]
                  THEN GotoRun(j, r, m, "restore") /\ Submit(j, r, m)
                  ELSE GotoRun(j, r, m, "guard") /\ UNCHANGED executor
          ELSE GotoRun(j, r, m, "mark") /\ UNCHANGED executor
    /\ UNCHANGED <<rows, main, draft>>

(* Mutant: there is no _retry_guarded.                                     *)
RestoreUnguarded(j, r, m) ==
    /\ run[j][r][m] = "restore"
    /\ Working(j, r, m)
    /\ \/ sourceType[j] # "realtime" /\ GotoRun(j, r, m, "mark")
       \/ /\ sourceType[j] = "realtime" \/ "model" \in Faults
          /\ GotoRun(j, r, m, "idle")
    /\ Release
    /\ UNCHANGED <<rows, main, draft>>

(* restore_transcription insists on two channels; the recording of a       *)
(* realtime session has one.                                               *)
Restore(j, r, m) ==
    /\ run[j][r][m] = "restore"
    /\ Working(j, r, m)
    /\ \/ sourceType[j] # "realtime" /\ GotoRun(j, r, m, "mark")
       \/ /\ sourceType[j] = "realtime" \/ "model" \in Faults
          /\ GotoRun(j, r, m, "guard")
    /\ Release
    /\ UNCHANGED <<rows, main, draft>>

(* Where an exception raised by the transaction awaited at pc is caught.   *)
RunHandler(o, pc) ==
    CASE pc \in {"mark", "markErr", "fail", "failErr"} ->
              IF o = Main THEN "raised" ELSE "guard"
      [] pc = "prep" -> "guard"
      [] pc \in {"accept", "acceptErr", "guard", "guardErr"} -> "idle"
      [] OTHER -> "fail"

RunAwaited == (RetryPc \cup AnalysisPc) \ {"work", "restore"}

RunRaises(j, o, m) ==
    /\ "db" \in Faults
    /\ run[j][o][m] \in RunAwaited
    /\ GotoRun(j, o, m, RunHandler(o, run[j][o][m]))
    /\ UNCHANGED <<rows, main, draft, executor>>

RunStep(j, o, m) ==
    \/ Mark(j, o, m) \/ MarkErr(j, o, m) \/ Work(j, o, m) \/ Save(j, o, m)
    \/ Done(j, o, m) \/ DoneErr(j, o, m) \/ Fail(j, o, m) \/ FailErr(j, o, m)
    \/ m = "quality" /\ (ReadEmotions(j, o) \/ ReadRisks(j, o) \/ Note(j, o))
    \/ Accept(j, o, m) \/ AcceptErr(j, o, m) \/ Prepare(j, o, m)
    \/ Restore(j, o, m) \/ RunRaises(j, o, m)

-----------------------------------------------------------------------------
(* The process dies and lifespan() starts it again: nothing is served      *)
(* before mark_running_interrupted has run.                                *)
Restart ==
    /\ "crash" \in Faults
    /\ \E j \in Jobs : main[j] # "none"
    /\ status' = [j \in Jobs |-> IF status[j] = "running" THEN "interrupted"
                                                         ELSE status[j]]
    /\ main' = [j \in Jobs |-> IF main[j] = "none" THEN "none" ELSE "end"]
    /\ run' = [j \in Jobs |-> Idle]
    /\ draft' = [j \in Jobs |-> [o \in Owners |-> NoScore]]
    /\ executor' = <<>>
    /\ UNCHANGED <<sourceType, source, moduleStatus, moduleError, session,
                   artifact, quality>>

Next ==
    \/ \E j \in Jobs : Create(j) \/ MainStep(j)
    \/ \E j \in Jobs, o \in Owners, m \in Analyses : RunStep(j, o, m)
    \/ \E j \in Jobs, r \in Retries, m \in RetryModules : RequestRetry(j, r, m)
    \/ Restart

(* The event loop resumes every coroutine whose await is over; the models  *)
(* and the summary service answer, or time out.                            *)
Fairness ==
    /\ \A j \in Jobs : WF_vars(MainStep(j))
    /\ \A j \in Jobs, o \in Owners, m \in Analyses : WF_vars(RunStep(j, o, m))

Spec == Init /\ [][Next]_vars /\ Fairness

-----------------------------------------------------------------------------
TypeOK ==
    /\ status \in [Jobs -> Statuses \cup {"none"}]
    /\ sourceType \in [Jobs -> SourceTypes]
    /\ source \in [Jobs -> BOOLEAN]
    /\ moduleStatus \in [Jobs -> [Modules -> ModuleStatuses]]
    /\ moduleError \in [Jobs -> [Modules -> BOOLEAN]]
    /\ session \in [Jobs -> {"none", "created", "completed"}]
    /\ artifact \in [Jobs -> [Modules -> BOOLEAN]]
    /\ quality \in [Jobs -> Scores]
    /\ main \in [Jobs -> MainPc]
    /\ run \in [Jobs -> [Owners -> [Analyses -> RunPc]]]
    /\ draft \in [Jobs -> [Owners -> Scores]]
    /\ executor \in Seq(Items)

(* A completed module has its result stored: get_result, which reads the   *)
(* statuses before the results, never answers "completed" with nothing     *)
(* behind it, whatever crashed or was retried in between.                  *)
CompletedHasArtifact ==
    \A j \in Jobs, m \in Modules :
        moduleStatus[j][m] = "completed" => artifact[j][m]

(* No analysis leaves "pending", and no coroutine works on one, before the *)
(* transcript it reads is completed: neither the first run nor a retry     *)
(* that a restart or a failed job leaves possible.                         *)
AnalysisAfterTranscript ==
    \A j \in Jobs, m \in Analyses :
        \/ moduleStatus[j][m] # "pending"
        \/ \E o \in Owners : run[j][o][m] # "idle"
        => moduleStatus[j]["transcript"] = "completed"

(* A job is reported completed only with its transcript completed and      *)
(* every analysis attempted: no failure of a sibling, and no retry that    *)
(* runs beside the first analysis, lets it skip one.                       *)
CompletedJobIsAnalyzed ==
    \A j \in Jobs : status[j] = "completed" =>
        /\ moduleStatus[j]["transcript"] = "completed"
        /\ \A m \in Analyses : moduleStatus[j][m] # "pending"

(* A module shown as running is being worked on, so that the page polling  *)
(* it will see it settle.  A crash or a failed transaction breaks this for *)
(* good: retry_module refuses a running module.                            *)
RunningModuleHasRun ==
    Faults \cap {"crash", "db"} = {} =>
        \A j \in Jobs, m \in Analyses :
            moduleStatus[j][m] = "running" => \E o \in Owners : Live(run[j][o][m])

(* The executor runs a function once for each coroutine that awaits it,    *)
(* and nothing else: what it holds are exactly the coroutines waiting.     *)
AwaitsExecutor(j, o, m) ==
    IF m = "transcript"
    THEN o = Main /\ main[j] \in {"download", "asr", "asrRun", "load"}
    ELSE \/ run[j][o][m] = "restore"
         \/ run[j][o][m] = "work" /\ m \in Executed

ExecutorMatchesAwaits ==
    /\ \A i \in DOMAIN executor :
          AwaitsExecutor(executor[i][1], executor[i][2], executor[i][3])
    /\ \A i, k \in DOMAIN executor : i # k => executor[i] # executor[k]
    /\ \A j \in Jobs, o \in Owners, m \in Modules : AwaitsExecutor(j, o, m) =>
          \E i \in DOMAIN executor : executor[i] = <<j, o, m>>

(* The stored quality score either used the emotions (the risks) or says   *)
(* that it could not, as _run_quality's suggestions promise the reader.    *)
(* Without retries: see QualityAfterInputs for what a retry does to it.    *)
QualityExplainsMissingInputs ==
    \A j \in Jobs : artifact[j]["quality"] =>
        quality[j].used \cup quality[j].noted = Inputs

(* Quality is computed when what it reads has been settled.                *)
QualityAfterInputs ==
    \A j \in Jobs, o \in Owners :
        run[j][o]["quality"] \in {"readRisks", "work"} =>
            \A x \in Inputs : moduleStatus[j][x] \in Settled

(* What the score of the first analysis rests on: settled inputs, and the  *)
(* ones it lacked are named.                                               *)
QualityIsExplained == QualityExplainsMissingInputs /\ QualityAfterInputs

-----------------------------------------------------------------------------
(* What the client has been told is final stays so: the overall status of  *)
(* a finished job does not change, by retries, by late siblings of a       *)
(* failed analysis or by restarts.  A failed transaction is excepted: when *)
(* closing the session raises, _analyze fails the completed job.           *)
TerminalIsFinal ==
    [][\A j \in Jobs : status[j] \in Terminal =>
          "db" \in Faults \/ status'[j] = status[j]]_vars

(* Once readable, the transcript stays readable: no failure of an analysis *)
(* takes it back.                                                          *)
TranscriptIsKept ==
    [][\A j \in Jobs : moduleStatus[j]["transcript"] = "completed" =>
          moduleStatus'[j]["transcript"] = "completed"]_vars

(* The rows a client polls behave as JobRecord says, as long as            *)
(* transactions do not raise.                                              *)
Record == INSTANCE JobRecord
RecordSpec == Record!Spec

(* Every job that is accepted ends.                                        *)
EveryJobEnds ==
    \A j \in Jobs : status[j] = "queued" ~> status[j] \in Terminal

(* Whatever becomes of the analyses, a transcribed job is completed.  A    *)
(* realtime job may still fail: it reads its recording after that.         *)
TranscribedJobCompletes ==
    \A j \in Jobs :
        moduleStatus[j]["transcript"] = "completed" /\ sourceType[j] # "realtime"
            ~> status[j] = "completed"

(* A retry that was accepted comes to an end, and with it the "running"    *)
(* that keeps the next retry out.                                          *)
RetryEnds ==
    \A j \in Jobs, r \in Retries, m \in RetryModules :
        run[j][r][m] = "acceptErr" ~> run[j][r][m] = "idle"

(* All that is started ends: jobs, as completed ones wherever there is a   *)
(* transcript, and retries.                                                *)
WorkEnds == EveryJobEnds /\ TranscribedJobCompletes /\ RetryEnds

-----------------------------------------------------------------------------
(* The inductive invariant.  What a coroutine has already written is not   *)
(* in its program counter alone: these parts tie the two together.         *)

TranscribingPc == {"none", "save", "reject", "source", "segments",
    "dlProgress", "download", "dlSource", "begin", "tRun", "tRunErr", "asr",
    "asrRun", "tSave", "tDone", "tFail", "tFailErr"}
AnalyzingPc == {"tDoneErr", "load", "progress", "gather", "quality",
                "complete", "close"}

MainInv(j) ==
    /\ main[j] = "none" <=> status[j] = "none"
    /\ main[j] \in TranscribingPc => moduleStatus[j]["transcript"] # "completed"
    /\ main[j] \in AnalyzingPc => moduleStatus[j]["transcript"] = "completed"
    /\ main[j] = "tDone" => artifact[j]["transcript"]
    /\ main[j] \in {"gather", "quality", "complete"} => status[j] = "running"
    /\ main[j] = "quality" =>
          \A m \in Analyses \ {"quality"} : run[j][Main][m] = "finished"
    /\ main[j] = "complete" => \A m \in Analyses : run[j][Main][m] = "finished"

(* Coroutine states reached only after the module's column left "pending". *)
Attempted(o, pc) ==
    /\ pc \notin {"idle", "raised", "accept"}
    /\ pc = "mark" => o # Main

RunInv(j, o, m) ==
    /\ run[j][o][m] # "idle" => moduleStatus[j]["transcript"] = "completed"
    /\ run[j][o][m] = "done" => artifact[j][m]
    /\ Attempted(o, run[j][o][m]) => moduleStatus[j][m] # "pending"

ModuleInv(j, m) ==
    /\ moduleStatus[j][m] = "completed" => artifact[j][m]
    /\ m # "transcript" /\ moduleStatus[j][m] # "pending" =>
          moduleStatus[j]["transcript"] = "completed"

CompletionInv(j) ==
    status[j] = "completed" =>
        /\ moduleStatus[j]["transcript"] = "completed"
        /\ \A m \in Analyses : moduleStatus[j][m] # "pending"

JobInv(j) ==
    /\ MainInv(j)
    /\ CompletionInv(j)
    /\ \A m \in Modules : ModuleInv(j, m)
    /\ \A o \in Owners, m \in Analyses : RunInv(j, o, m)

IInv == TypeOK /\ \A j \in Jobs : JobInv(j)

(* Without failed transactions, a coroutine that still has a status to     *)
(* write has not written a final one.                                      *)
OpenInv ==
    "db" \notin Faults =>
        \A j \in Jobs : main[j] \notin {"none", "end", "close"} =>
            status[j] \in {"queued", "running"}
=============================================================================
