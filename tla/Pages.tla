--------------------------------- MODULE Pages ---------------------------------
(***************************************************************************)
(* The two pages that follow a job on the server by polling: the analysis  *)
(* of a recording (useAnalysisJob.ts) and speech synthesis (useTts.ts).    *)
(* What the user does starts a coroutine, which awaits one answer after    *)
(* another and sleeps on a timer in between; the answers of different      *)
(* coroutines overtake one another, and a generation number is to keep     *)
(* those of a superseded coroutine from the page.  The pages have the same *)
(* shape but not the same checks.                                          *)
(*                                                                         *)
(* A job has the number of the action it belongs to.  Texts of errors, the *)
(* presets and the health of the synthesis page are left out, and so is    *)
(* what still runs after that page was taken away.                         *)
(***************************************************************************)
EXTENDS Naturals, FiniteSets

CONSTANTS
    Faults,         \* a subset of {"network"}: a request may fail
    MaxActions      \* bound: what the user does

ASSUME BoundsAssumption == Faults \subseteq {"network"} /\ MaxActions \in Nat \ {0}

Actions == 1..MaxActions

(* What the server says of a job.  "open": queued or running; "readable":  *)
(* running, with a transcript; "partial": completed, with modules that are *)
(* still pending or running; "broken": failed, with a transcript.          *)
Phases == {"open", "readable", "partial", "done", "failed", "broken"}
Readable == {"readable", "partial", "done", "broken"}
Waits == {"create", "attach", "retry", "status", "result", "clone"}

VARIABLES
    page,           \* "analysis" or "tts"
    server,         \* of each job
    shown,          \* job.value: a job and its phase, job 0 for undefined
    result,         \* result.value: the job, and its phase when it was read
    error,          \* error.value is set
    generation,
    pollTimer,      \* whose timer stopPolling would clear, 0 when it has fired
    chain,          \* the coroutine of each action: where it is, its job and
                    \* generation, the status it has seen, and the answer on its
                    \* way: requests are served when they are made
    actions,        \* how many there were
    excused         \* history: an answer was written to the page unchecked after
                    \* a later action, or attachJob raised

vars == <<page, server, shown, result, error, generation, pollTimer, chain,
          actions, excused>>

None == [job |-> 0, phase |-> "none"]
Coroutine(at, job, gen, answer) ==
    [at |-> at, job |-> job, gen |-> gen, seen |-> "none", answer |-> answer]
Over(job) == Coroutine("over", job, 0, "none")

Init ==
    /\ page \in {"analysis", "tts"}
    /\ server = [j \in Actions |-> "none"]
    /\ shown = None /\ result = None /\ error = FALSE
    /\ generation = 0 /\ pollTimer = 0
    /\ chain = [i \in Actions |-> Coroutine("none", 0, 0, "none")]
    /\ actions = 0 /\ excused = FALSE

IsWorking == shown.phase \in {"open", "readable"}
Live(i) == chain[i].at \notin {"none", "over"}

-----------------------------------------------------------------------------
(* What the user does.                                                     *)

(* stopPolling, and a new coroutine                                        *)
Start(c) ==
    /\ chain' = [i \in Actions |->
                    IF i = actions + 1 THEN c
                    ELSE IF i = pollTimer /\ chain[i].at = "timer"
                    THEN Over(chain[i].job)
                    ELSE chain[i]]
    /\ pollTimer' = 0

(* Bound: the user does nothing more once an answer was written unchecked  *)
(* over a later action; the properties say nothing of the page after that. *)
Act ==
    /\ actions < MaxActions /\ ~excused
    /\ actions' = actions + 1
    /\ UNCHANGED <<page, excused>>

(* Mutant: the coroutine of a former job keeps the generation.             *)
SubmitSameGeneration ==
    /\ Act
    /\ ~IsWorking
    /\ Start(Coroutine("create", actions + 1, generation, "open"))
    /\ server' = [server EXCEPT ![actions + 1] = "open"]
    /\ result' = None /\ error' = FALSE
    /\ UNCHANGED <<generation, shown>>

(* submit and synthesize: the button is disabled while a job is working,   *)
(* but not yet while it is being created.                                  *)
Submit ==
    /\ Act
    /\ ~IsWorking
    /\ generation' = generation + 1
    /\ Start(Coroutine("create", actions + 1, generation + 1, "open"))
    /\ server' = [server EXCEPT ![actions + 1] = "open"]
    /\ result' = None /\ error' = FALSE
    /\ UNCHANGED shown

(* attachJob: the call of the realtime panel has ended and left a job,     *)
(* whose transcript is there.                                              *)
AttachJob ==
    /\ Act
    /\ page = "analysis"
    /\ generation' = generation + 1
    /\ Start(Coroutine("attach", actions + 1, generation + 1, "readable"))
    /\ server' = [server EXCEPT ![actions + 1] = "readable"]
    /\ error' = FALSE
    /\ UNCHANGED <<shown, result>>

(* retryAnalysisModule: the result offers it for a module that has failed  *)
(* and for the summary, whatever the job is doing.  The server refuses     *)
(* without a transcript, and when that module is running, which it may be  *)
(* by now unless all have ended.                                           *)
Accepts(j) ==
    /\ server[j] \in Readable
    /\ LET p == IF server[j] = "done" THEN "partial" ELSE server[j] IN
          /\ server' = [server EXCEPT ![j] = p]
          /\ chain' = [chain EXCEPT ![actions + 1] = Coroutine("retry", j, 0, p)]
Refuses(j) ==
    /\ server[j] # "done"
    /\ chain' = [chain EXCEPT ![actions + 1] = Coroutine("retry", j, 0, "error")]
    /\ UNCHANGED server

RetryAnalysisModule ==
    /\ Act
    /\ page = "analysis" /\ result # None /\ shown # None
    /\ Accepts(shown.job) \/ Refuses(shown.job)
    /\ error' = FALSE
    /\ UNCHANGED <<generation, pollTimer, shown, result>>

(* uploadVoice *)
UploadVoice ==
    /\ Act
    /\ page = "tts"
    /\ Start(Coroutine("clone", 0, 0, "cloned"))
    /\ shown' = None /\ error' = FALSE
    /\ UNCHANGED <<generation, server, result>>

(* resetResult, when another voice is selected                             *)
ResetResult ==
    /\ Act
    /\ page = "tts"
    /\ Start(Over(0))
    /\ generation' = generation + 1
    /\ shown' = None /\ error' = FALSE
    /\ UNCHANGED <<server, result>>

-----------------------------------------------------------------------------
(* The server.                                                             *)

Successors(p) ==
    CASE p = "open" -> {"failed", IF page = "analysis" THEN "readable" ELSE "done"}
      [] p = "readable" -> {"partial", "done", "broken"}
      [] p = "partial" -> {"done"}
      [] OTHER -> {}

(* Only of jobs that somebody asks for, or looks at: nobody can tell of the *)
(* others.                                                                 *)
Progress(j) ==
    /\ shown.job = j \/ \E i \in Actions : Live(i) /\ chain[i].job = j
    /\ \E p \in Successors(server[j]) : server' = [server EXCEPT ![j] = p]
    /\ UNCHANGED <<page, shown, result, error, generation, pollTimer, chain,
                   actions, excused>>

-----------------------------------------------------------------------------
(* The coroutines.                                                         *)

Sleep(i) ==
    /\ chain' = [chain EXCEPT ![i] = Coroutine("timer", @.job, @.gen, "none")]
    /\ pollTimer' = i
End(i) == chain' = [chain EXCEPT ![i] = Over(@.job)]
Overtaken(i) == excused' = (excused \/ i # actions)

(* poll, when it is called: a superseded one returns.                      *)
Poll(i, gen, current) ==
    IF gen # current THEN End(i)
    ELSE chain' = [chain EXCEPT ![i] = Coroutine("status", @.job, gen, server[@.job])]
GetResult(i) ==
    chain' = [chain EXCEPT ![i].at = "result", ![i].seen = chain[i].answer,
                           ![i].answer = server[chain[i].job]]

(* Mutant: a completed job is not polled for its modules.                  *)
AfterStatusDone(i, phase) ==
    /\ IF phase \in {"partial", "done", "failed", "broken"}
       THEN End(i) /\ UNCHANGED pollTimer
       ELSE Sleep(i)
    /\ error' = (error \/ phase \in {"failed", "broken"})

(* The end of poll: a job that is not done is asked for again in a second, *)
(* and the handle of the timer replaces the one there was.                 *)
AfterStatus(i, phase) ==
    /\ IF phase \in {"done", "failed", "broken"}
       THEN End(i) /\ UNCHANGED pollTimer
       ELSE Sleep(i)
    /\ error' = (error \/ phase \in {"failed", "broken"})

(* Whatever raises ends the coroutine, with a message on the page, also    *)
(* when that is about another job by now; only attachJob does not catch.   *)
(* Bound: a request fails only when no other failure is shown and no       *)
(* answer was written unchecked.                                           *)
Raised(i) ==
    /\ chain[i].at \in Waits
    /\ chain[i].answer = "error" \/ ("network" \in Faults /\ ~error /\ ~excused)
    /\ End(i)
    /\ IF chain[i].at = "attach" THEN excused' = TRUE /\ UNCHANGED error
       ELSE error' = TRUE /\ UNCHANGED excused
    /\ UNCHANGED <<shown, result, generation, pollTimer>>

(* The first answer of a coroutine is shown whatever has been done since;  *)
(* a retry then starts a generation of its own.                            *)
Began(i) ==
    LET c == chain[i] IN
    /\ c.at \in {"create", "attach", "retry"}
    /\ shown' = [job |-> c.job, phase |-> c.answer]
    /\ generation' = IF c.at = "retry" THEN generation + 1 ELSE generation
    /\ IF c.at = "retry" THEN Poll(i, generation + 1, generation + 1)
                         ELSE Poll(i, c.gen, generation)
    /\ Overtaken(i)
    /\ UNCHANGED <<result, error, pollTimer>>

(* Mutant: the status is not compared with the generation it was asked in. *)
AnalysisStatusUnchecked(i) ==
    LET c == chain[i] IN
    /\ c.at = "status" /\ page = "analysis"
    /\ shown' = [job |-> c.job, phase |-> c.answer]
    /\ IF c.answer \in Readable
       THEN GetResult(i) /\ UNCHANGED <<error, pollTimer>>
       ELSE AfterStatus(i, c.answer)
    /\ UNCHANGED <<result, generation, excused>>

(* The analysis page looks at the generation before it shows a status, and *)
(* fetches the result as soon as there is a transcript, of a job that has  *)
(* failed too.                                                             *)
AnalysisStatus(i) ==
    LET c == chain[i] IN
    /\ c.at = "status" /\ page = "analysis"
    /\ IF c.gen # generation
       THEN End(i) /\ UNCHANGED <<shown, error, pollTimer>>
       ELSE /\ shown' = [job |-> c.job, phase |-> c.answer]
            /\ IF c.answer \in Readable
               THEN GetResult(i) /\ UNCHANGED <<error, pollTimer>>
               ELSE AfterStatus(i, c.answer)
    /\ UNCHANGED <<result, generation, excused>>

(* It does not look again before it shows the result and goes on with the  *)
(* status from before, or with its error.                                  *)
Result(i) ==
    LET c == chain[i] IN
    /\ c.at = "result"
    /\ result' = [job |-> c.job, phase |-> c.answer]
    /\ AfterStatus(i, c.seen)
    /\ Overtaken(i)
    /\ UNCHANGED <<shown, generation>>

(* The synthesis page does not look after it has been called.              *)
TtsStatus(i) ==
    LET c == chain[i] IN
    /\ c.at = "status" /\ page = "tts"
    /\ shown' = [job |-> c.job, phase |-> c.answer]
    /\ AfterStatus(i, c.answer)
    /\ Overtaken(i)
    /\ UNCHANGED <<result, generation>>

Cloned(i) ==
    /\ chain[i].at = "clone"
    /\ End(i)
    /\ UNCHANGED <<shown, result, error, generation, pollTimer, excused>>

Resume(i) ==
    /\ \/ Raised(i)
       \/ chain[i].answer # "error"
          /\ (Began(i) \/ AnalysisStatus(i) \/ Result(i) \/ TtsStatus(i) \/ Cloned(i))
    /\ UNCHANGED <<page, server, actions>>

Fire(i) ==
    /\ chain[i].at = "timer"
    /\ Poll(i, chain[i].gen, generation)
    /\ pollTimer' = IF pollTimer = i THEN 0 ELSE pollTimer
    /\ UNCHANGED <<page, server, shown, result, error, generation, actions, excused>>

Next ==
    \/ Submit \/ AttachJob \/ RetryAnalysisModule
    \/ UploadVoice \/ ResetResult
    \/ \E j \in Actions : Progress(j)
    \/ \E i \in Actions : Resume(i) \/ Fire(i)

(* Jobs end (AnalysisJobs and TtsJobs say when); requests are answered or  *)
(* fail, and timers fire, in any order.                                    *)
Fairness ==
    /\ WF_vars(\E j \in Actions : Progress(j))
    /\ WF_vars(\E i \in Actions : Resume(i) \/ Fire(i))

Spec == Init /\ [][Next]_vars /\ Fairness

-----------------------------------------------------------------------------
TypeOK ==
    /\ page \in {"analysis", "tts"}
    /\ server \in [Actions -> Phases \cup {"none"}]
    /\ shown.job \in 0..MaxActions /\ shown.phase \in Phases \cup {"none"}
    /\ result.job \in 0..MaxActions /\ result.phase \in Phases \cup {"none"}
    /\ generation \in 0..MaxActions * 2 /\ pollTimer \in 0..actions
    /\ \A i \in Actions : Live(i) => i <= actions

(* A generation is polled by one coroutine at most, so that the statuses   *)
(* of a job come to the page in the order they were asked for.             *)
OnePollOfAGeneration ==
    \A i, k \in Actions :
        Live(i) /\ Live(k) /\ chain[i].gen = chain[k].gen /\ chain[i].gen # 0 => i = k

(* What the page holds is of its actions, and one coroutine at most polls  *)
(* for each generation.                                                    *)
PollsInv == TypeOK /\ OnePollOfAGeneration

(* When nothing is under way any more, the page shows the job of the last  *)
(* action as the server has it, with the result of all of its modules:     *)
(* unless a request has failed, or an answer came after a later action and *)
(* was written to the page without a look at the generation.               *)
SettledPageIsCurrent ==
    (\A i \in Actions : ~Live(i)) /\ shown # None /\ ~error /\ ~excused =>
        /\ shown = [job |-> chain[actions].job, phase |-> server[shown.job]]
        /\ page = "analysis" => result = shown

(* Under the same condition a job that the page shows as open is shown to  *)
(* have ended at some time, or is replaced by none, or an error is shown.  *)
PageLearnsTheEnd ==
    shown.phase \in {"open", "readable", "partial"}
        ~> shown.phase \in {"none", "done", "failed", "broken"} \/ error \/ excused
=============================================================================
