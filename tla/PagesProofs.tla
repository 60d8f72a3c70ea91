----------------------------- MODULE PagesProofs -----------------------------
(***************************************************************************)
(* Theorems about Pages for every number of actions, with and without      *)
(* failing requests.                                                       *)
(***************************************************************************)
EXTENDS Pages, FiniteSetTheorems, TLAPS

USE BoundsAssumption

-----------------------------------------------------------------------------
(* The inductive invariant.                                                *)

Ats == {"none", "over", "timer"} \cup Waits
First == {"create", "attach", "retry"}
Polling == {"status", "result", "timer"}
Coroutines ==
    [at : Ats, job : 0..MaxActions, gen : Nat, seen : Phases \cup {"none"},
     answer : Phases \cup {"none", "error", "cloned"}]

(* Coroutine c of action i follows a job that was created, and awaits an   *)
(* answer that says something of it.                                       *)
Sound(i, c) ==
    /\ c.at \notin {"none", "over"} => i <= actions
    /\ c.gen <= generation
    /\ c.at \in First \cup Polling =>
          c.job \in Actions /\ server[c.job] # "none"
    /\ c.at \in {"create", "attach"} \cup Polling => c.gen > 0
    /\ c.at \in {"retry", "clone"} => c.gen = 0
    /\ c.at \in {"create", "attach", "status", "result"} => c.answer \in Phases
    /\ c.at = "retry" => c.answer \in Phases \cup {"error"}
    /\ c.at = "result" => c.seen \in Readable
    /\ c.at \in {"attach", "retry", "result"} => page = "analysis"
    /\ c.at = "clone" => page = "tts"

Retrying == {i \in Actions : chain[i].at = "retry"}

TypeInv ==
    /\ page \in {"analysis", "tts"}
    /\ server \in [Actions -> Phases \cup {"none"}]
    /\ chain \in [Actions -> Coroutines]
    /\ shown \in [job : Actions, phase : Phases] \cup {None}
    /\ result \in [job : Actions, phase : Phases] \cup {None}
    /\ error \in BOOLEAN /\ excused \in BOOLEAN
    /\ actions \in 0..MaxActions /\ pollTimer \in 0..actions
    /\ generation \in Nat
    /\ generation + Cardinality(Retrying) <= actions
    /\ shown # None => server[shown.job] # "none"
    /\ \A i \in Actions : Sound(i, chain[i])

(* The coroutine of the last action, of which the page shows what it says: *)
(* nobody else writes to the page unless it is excused, for a coroutine    *)
(* that looks at the generation sees another one there.                    *)

(* No other coroutine has the generation of the page.                      *)
Alone == \A k \in Actions : k # actions /\ Live(k) => chain[k].gen # generation

DoneOf(c) == [job |-> c.job, phase |-> "done"]

Shown(c) ==
    /\ c.at # "none"
    /\ c.at \in {"create", "attach"} \cup Polling => c.gen = generation /\ Alone
    /\ c.at \in Polling => shown # None /\ shown.job = c.job
    /\ c.at \in {"status", "result"} =>
          (c.answer \in {"done", "failed"} => server[c.job] = c.answer)
    /\ c.at = "result" =>
          /\ shown.phase = c.seen
          /\ c.seen = "done" => server[c.job] = "done" /\ c.answer = "done"
    /\ c.at = "clone" => shown = None
    /\ c.at = "over" =>
          \/ error
          \/ shown = None /\ page = "tts"
          \/ /\ Alone \/ page = "tts"
             /\ shown = DoneOf(c) /\ server[c.job] = "done"
             /\ page = "analysis" => result = DoneOf(c)

LatestInv == IF actions = 0 THEN shown = None ELSE Shown(chain[actions])

IInv == TypeInv /\ OnePollOfAGeneration /\ (excused \/ LatestInv)

-----------------------------------------------------------------------------
(* Types.                                                                  *)

Becomes(i, c) == chain' = [chain EXCEPT ![i] = c]

LEMMA CoroutineType ==
  ASSUME NEW at \in Ats, NEW job \in 0..MaxActions, NEW gen \in Nat,
         NEW answer \in Phases \cup {"none", "error", "cloned"}
  PROVE  /\ Coroutine(at, job, gen, answer) \in Coroutines
         /\ Coroutine(at, job, gen, answer).at = at
         /\ Coroutine(at, job, gen, answer).job = job
         /\ Coroutine(at, job, gen, answer).gen = gen
         /\ Coroutine(at, job, gen, answer).answer = answer
BY DEF Coroutine, Coroutines

LEMMA OverType ==
  ASSUME NEW job \in 0..MaxActions
  PROVE  /\ Over(job) \in Coroutines
         /\ Over(job).at = "over" /\ Over(job).job = job /\ Over(job).gen = 0
BY CoroutineType DEF Over, Ats, Waits

(* What was sound stays so while jobs and generations are added.           *)
LEMMA SoundStays ==
  ASSUME NEW i \in Actions, NEW c \in Coroutines, Sound(i, c),
         actions \in Nat, actions' \in Nat, actions <= actions',
         generation \in Nat, generation' \in Nat, generation <= generation',
         page' = page,
         \A j \in Actions : server[j] # "none" => server'[j] # "none"
  PROVE  Sound(i, c)'
<1>1. i \in Int BY DEF Actions
<1>. QED BY <1>1 DEF Sound, Coroutines

LEMMA SoundOver ==
  ASSUME NEW i \in Actions, NEW job \in 0..MaxActions, generation \in Nat
  PROVE  Sound(i, Over(job))
BY OverType DEF Sound, First, Polling

(* A coroutine whose next state is c.                                      *)
LEMMA BecomesChain ==
  ASSUME chain \in [Actions -> Coroutines], NEW i \in Actions,
         NEW c \in Coroutines, Becomes(i, c)
  PROVE  /\ chain' \in [Actions -> Coroutines]
         /\ chain'[i] = c
         /\ \A k \in Actions : k # i => chain'[k] = chain[k]
BY DEF Becomes

-----------------------------------------------------------------------------
(* What one coroutine does.                                                *)

SleepCase(i, c) ==
    c = Coroutine("timer", chain[i].job, chain[i].gen, "none")
EndCase(i, c) == c = Over(chain[i].job)
AskCase(i, gen, c) ==
    c = Coroutine("status", chain[i].job, gen, server[chain[i].job])
ResultCase(i, c) ==
    c = [at |-> "result", job |-> chain[i].job, gen |-> chain[i].gen,
         seen |-> chain[i].answer, answer |-> server[chain[i].job]]

LEMMA ResultRecord ==
  ASSUME NEW r \in Coroutines, NEW s, NEW a
  PROVE  [r EXCEPT !.at = "result", !.seen = s, !.answer = a]
            = [at |-> "result", job |-> r.job, gen |-> r.gen, seen |-> s, answer |-> a]
<1> DEFINE x == [r EXCEPT !.at = "result"]
           y == [x EXCEPT !.seen = s]
           z == [y EXCEPT !.answer = a]
<1>1. r = [at |-> r.at, job |-> r.job, gen |-> r.gen, seen |-> r.seen, answer |-> r.answer]
  BY DEF Coroutines
<1>2. x = [at |-> "result", job |-> r.job, gen |-> r.gen, seen |-> r.seen,
           answer |-> r.answer]
  BY <1>1
<1> HIDE DEF x
<1>3. y = [at |-> "result", job |-> r.job, gen |-> r.gen, seen |-> s,
           answer |-> r.answer]
  BY <1>2
<1> HIDE DEF y
<1>4. z = [at |-> "result", job |-> r.job, gen |-> r.gen, seen |-> s, answer |-> a]
  BY <1>3
<1>. QED BY <1>4 DEF x, y, z

LEMMA ChainMoves ==
  ASSUME chain \in [Actions -> Coroutines], NEW i \in Actions
  PROVE  /\ Sleep(i) => \E c : SleepCase(i, c) /\ Becomes(i, c)
         /\ End(i) => \E c : EndCase(i, c) /\ Becomes(i, c)
         /\ GetResult(i) => \E c : ResultCase(i, c) /\ Becomes(i, c)
         /\ \A gen, current :
               /\ Poll(i, gen, current) /\ gen = current =>
                     \E c : AskCase(i, gen, c) /\ Becomes(i, c)
               /\ Poll(i, gen, current) /\ gen # current =>
                     \E c : EndCase(i, c) /\ Becomes(i, c)
<1>1. Sleep(i) => \E c : SleepCase(i, c) /\ Becomes(i, c)
  BY DEF Sleep, SleepCase, Becomes
<1>2. End(i) => \E c : EndCase(i, c) /\ Becomes(i, c)
  BY DEF End, EndCase, Becomes
<1>3. GetResult(i) => \E c : ResultCase(i, c) /\ Becomes(i, c)
  <2> DEFINE c == [at |-> "result", job |-> chain[i].job, gen |-> chain[i].gen,
                   seen |-> chain[i].answer, answer |-> server[chain[i].job]]
  <2>1. ASSUME GetResult(i) PROVE Becomes(i, c)
    <3>1. chain[i] \in Coroutines OBVIOUS
    <3>2. c = [chain[i] EXCEPT !.at = "result", !.seen = chain[i].answer,
                               !.answer = server[chain[i].job]]
      BY <3>1, ResultRecord
    <3>3. chain' = [chain EXCEPT ![i] =
                      [chain[i] EXCEPT !.at = "result", !.seen = chain[i].answer,
                                       !.answer = server[chain[i].job]]]
      BY <2>1 DEF GetResult
    <3>. QED BY <3>2, <3>3 DEF Becomes
  <2>. QED BY <2>1 DEF ResultCase
<1>4. ASSUME NEW gen, NEW current, Poll(i, gen, current), gen = current
      PROVE  \E c : AskCase(i, gen, c) /\ Becomes(i, c)
  BY <1>4 DEF Poll, AskCase, Becomes
<1>5. ASSUME NEW gen, NEW current, Poll(i, gen, current), gen # current
      PROVE  \E c : EndCase(i, c) /\ Becomes(i, c)
  BY <1>2, <1>5 DEF Poll
<1>. QED BY <1>1, <1>2, <1>3, <1>4, <1>5

(* A coroutine goes on: it ends, or polls in its generation, or in the new *)
(* one that a retry has made.                                              *)
Goes(i) ==
    /\ Live(i)
    /\ \E c \in Coroutines :
          /\ Becomes(i, c) /\ Sound(i, c)'
          /\ c.at \in {"over"} \cup Polling
          /\ \/ c.at = "over" /\ generation' = generation
             \/ c.gen = chain[i].gen /\ generation' = generation
                /\ chain[i].at # "retry"
             \/ c.gen = generation' /\ generation' = generation + 1
                /\ chain[i].at = "retry"

(* The page shows jobs that were created.                                  *)
Shows ==
    /\ shown' \in [job : Actions, phase : Phases] \cup {None}
    /\ shown' # None => server[shown'.job] # "none"
    /\ result' \in [job : Actions, phase : Phases] \cup {None}
    /\ error' \in BOOLEAN /\ excused' \in BOOLEAN

LEMMA SleepGoes ==
  ASSUME TypeInv, NEW i \in Actions, chain[i].at \in Polling,
         UNCHANGED <<page, server, actions, generation>>, Sleep(i)
  PROVE  Goes(i) /\ pollTimer' = i
<1>1. chain[i] \in Coroutines /\ Sound(i, chain[i]) BY DEF TypeInv
<1>2. PICK c : SleepCase(i, c) /\ Becomes(i, c) BY ChainMoves DEF TypeInv
<1>3. "timer" \in Ats /\ chain[i].job \in 0..MaxActions /\ chain[i].gen \in Nat
  BY <1>1 DEF Coroutines, Ats
<1>4. c \in Coroutines /\ c.at = "timer" /\ c.job = chain[i].job /\ c.gen = chain[i].gen
  BY <1>2, <1>3, CoroutineType DEF SleepCase
<1>5. Sound(i, c) BY <1>1, <1>4 DEF Sound, Polling, First
<1>6. Sound(i, c)' BY <1>5 DEF Sound
<1>7. Live(i) BY DEF Live, Polling
<1>. QED BY <1>2, <1>4, <1>6, <1>7 DEF Goes, Polling, Sleep

LEMMA EndGoes ==
  ASSUME TypeInv, NEW i \in Actions, Live(i),
         UNCHANGED <<page, server, actions, generation>>, End(i)
  PROVE  Goes(i)
<1>1. chain[i] \in Coroutines /\ generation \in Nat BY DEF TypeInv
<1>2. PICK c : EndCase(i, c) /\ Becomes(i, c) BY ChainMoves DEF TypeInv
<1>3. chain[i].job \in 0..MaxActions BY <1>1 DEF Coroutines
<1>4. c \in Coroutines /\ c.at = "over" BY <1>2, <1>3, OverType DEF EndCase
<1>5. Sound(i, c) BY <1>1, <1>2, <1>3, SoundOver DEF EndCase
<1>6. Sound(i, c)' BY <1>5 DEF Sound
<1>. QED BY <1>2, <1>4, <1>6 DEF Goes

LEMMA PollGoes ==
  ASSUME TypeInv, NEW i \in Actions, NEW gen,
         UNCHANGED <<page, server, actions>>, Poll(i, gen, generation'),
         \/ /\ chain[i].at \in {"create", "attach", "timer"}
            /\ gen = chain[i].gen /\ generation' = generation
         \/ /\ chain[i].at = "retry"
            /\ gen = generation' /\ generation' = generation + 1
  PROVE  Goes(i)
<1>0. Live(i) BY DEF Live
<1>1. chain[i] \in Coroutines /\ generation \in Nat /\ Sound(i, chain[i])
  BY DEF TypeInv
<1>2. CASE gen # generation'
  <2>1. End(i) /\ generation' = generation BY <1>2 DEF Poll
  <2>. QED BY <1>0, <2>1, EndGoes
<1>3. CASE gen = generation'
  <2>1. PICK c : AskCase(i, gen, c) /\ Becomes(i, c)
    BY <1>3, ChainMoves DEF TypeInv
  <2>2. /\ chain[i].job \in Actions /\ server[chain[i].job] \in Phases
        /\ i <= actions
    BY <1>1 DEF Sound, First, Polling, TypeInv
  <2>3. gen \in Nat /\ gen > 0
    BY <1>1 DEF Sound, Coroutines, Polling
  <2>4. "status" \in Ats /\ chain[i].job \in 0..MaxActions
    BY <1>1 DEF Coroutines, Ats, Waits
  <2>5. /\ c \in Coroutines /\ c.at = "status" /\ c.job = chain[i].job
        /\ c.gen = gen /\ c.answer = server[chain[i].job]
    BY <2>1, <2>2, <2>3, <2>4, CoroutineType DEF AskCase
  <2>6. server[chain[i].job] # "none" BY <2>2 DEF Phases
  <2>7. Sound(i, c)'
    BY <1>1, <1>3, <2>2, <2>3, <2>5, <2>6 DEF Sound, First, Polling
  <2>. QED BY <1>0, <1>3, <2>1, <2>5, <2>7 DEF Goes, Polling
<1>. QED BY <1>2, <1>3

LEMMA ResultGoes ==
  ASSUME TypeInv, NEW i \in Actions, chain[i].at = "status", page = "analysis",
         chain[i].answer \in Readable,
         UNCHANGED <<page, server, actions, generation>>, GetResult(i)
  PROVE  Goes(i)
<1>0. Live(i) BY DEF Live
<1>1. chain[i] \in Coroutines /\ generation \in Nat /\ Sound(i, chain[i])
  BY DEF TypeInv
<1>2. PICK c : ResultCase(i, c) /\ Becomes(i, c) BY ChainMoves DEF TypeInv
<1>3. /\ chain[i].job \in Actions /\ server[chain[i].job] \in Phases \ {"none"}
      /\ i <= actions /\ chain[i].gen > 0
  BY <1>1 DEF Sound, First, Polling, TypeInv, Phases
<1>4. c \in Coroutines
  BY <1>1, <1>2, <1>3 DEF ResultCase, Coroutines, Ats, Waits, Phases, Readable
<1>5. /\ c.at = "result" /\ c.job = chain[i].job /\ c.gen = chain[i].gen
      /\ c.seen = chain[i].answer /\ c.answer = server[chain[i].job]
  BY <1>2 DEF ResultCase
<1>6. Sound(i, c)' BY <1>1, <1>3, <1>5 DEF Sound, First, Polling
<1>. QED BY <1>0, <1>2, <1>4, <1>5, <1>6 DEF Goes, Polling

LEMMA AfterStatusGoes ==
  ASSUME TypeInv, NEW i \in Actions, chain[i].at \in {"status", "result"},
         UNCHANGED <<page, server, actions, generation>>,
         NEW phase, AfterStatus(i, phase)
  PROVE  /\ Goes(i) /\ pollTimer' \in {pollTimer, i}
         /\ error' \in BOOLEAN
<1>1. Live(i) /\ chain[i].at \in Polling BY DEF Live, Polling
<1>2. error' \in BOOLEAN BY DEF AfterStatus, TypeInv
<1>3. CASE phase \in {"done", "failed", "broken"}
  BY <1>1, <1>2, <1>3, EndGoes DEF AfterStatus
<1>4. CASE phase \notin {"done", "failed", "broken"}
  BY <1>1, <1>2, <1>4, SleepGoes DEF AfterStatus
<1>. QED BY <1>3, <1>4

(* Every answer, failure and timer lets one coroutine go on, and what it   *)
(* writes to the page is of a job there is.                                *)
LEMMA ResumeGoes ==
  ASSUME TypeInv, NEW i \in Actions, Resume(i) \/ Fire(i)
  PROVE  /\ UNCHANGED <<page, server, actions>>
         /\ Goes(i) /\ Shows /\ pollTimer' \in {pollTimer, i, 0}
<1>0. UNCHANGED <<page, server, actions>> BY DEF Resume, Fire
<1>1. /\ chain[i] \in Coroutines /\ Sound(i, chain[i])
      /\ server \in [Actions -> Phases \cup {"none"}]
      /\ error \in BOOLEAN /\ excused \in BOOLEAN
      /\ shown \in [job : Actions, phase : Phases] \cup {None}
      /\ result \in [job : Actions, phase : Phases] \cup {None}
      /\ shown # None => server[shown.job] # "none"
  BY DEF TypeInv
<1>2. ASSUME NEW j \in Actions, NEW p \in Phases
      PROVE  [job |-> j, phase |-> p] \in [job : Actions, phase : Phases]
  OBVIOUS
<1>3. ASSUME NEW j \in Actions, NEW p, server[j] # "none", shown' = [job |-> j, phase |-> p]
      PROVE  shown' # None => server[shown'.job] # "none"
  BY <1>3
<1>4. CASE Raised(i)
  <2>1. Live(i) BY <1>4 DEF Raised, Waits, Live
  <2>2. End(i) /\ UNCHANGED <<shown, result, generation, pollTimer>> BY <1>4 DEF Raised
  <2>3. error' \in BOOLEAN /\ excused' \in BOOLEAN BY <1>1, <1>4 DEF Raised
  <2>. QED BY <1>0, <1>1, <2>1, <2>2, <2>3, EndGoes DEF Shows
<1>5. CASE Began(i) /\ chain[i].answer # "error"
  <2>1. /\ chain[i].at \in First /\ shown' = [job |-> chain[i].job, phase |-> chain[i].answer]
        /\ excused' \in BOOLEAN /\ UNCHANGED <<result, error, pollTimer>>
    BY <1>1, <1>5 DEF Began, Overtaken, First
  <2>2. /\ chain[i].job \in Actions /\ server[chain[i].job] # "none"
        /\ chain[i].answer \in Phases
    BY <1>1, <1>5, <2>1 DEF Sound, First
  <2>3. Shows BY <1>1, <1>2, <1>3, <2>1, <2>2 DEF Shows
  <2>4. Goes(i)
    <3>1. CASE chain[i].at = "retry"
      <4>1. generation' = generation + 1 /\ Poll(i, generation', generation')
        BY <1>5, <3>1 DEF Began
      <4>. QED BY <1>0, <3>1, <4>1, PollGoes
    <3>2. CASE chain[i].at # "retry"
      <4>1. generation' = generation /\ Poll(i, chain[i].gen, generation')
        BY <1>5, <3>2 DEF Began
      <4>2. chain[i].at \in {"create", "attach", "timer"} BY <2>1, <3>2 DEF First
      <4>. QED BY <1>0, <4>1, <4>2, PollGoes
    <3>. QED BY <3>1, <3>2
  <2>. QED BY <1>0, <2>1, <2>3, <2>4
<1>6. CASE AnalysisStatus(i) /\ chain[i].answer # "error"
  <2>1. /\ chain[i].at = "status" /\ page = "analysis" /\ Live(i)
        /\ UNCHANGED <<result, generation, excused>>
    BY <1>6 DEF AnalysisStatus, Live
  <2>2. /\ chain[i].job \in Actions /\ server[chain[i].job] # "none"
        /\ chain[i].answer \in Phases
    BY <1>1, <2>1 DEF Sound, Polling
  <2>3. CASE chain[i].gen # generation
    <3>1. End(i) /\ UNCHANGED <<shown, error, pollTimer>>
      BY <1>6, <2>3 DEF AnalysisStatus
    <3>. QED BY <1>0, <1>1, <2>1, <3>1, EndGoes DEF Shows
  <2>4. CASE chain[i].gen = generation
    <3>1. shown' = [job |-> chain[i].job, phase |-> chain[i].answer]
      BY <1>6, <2>4 DEF AnalysisStatus
    <3>2. shown' \in [job : Actions, phase : Phases] \cup {None} BY <1>2, <2>2, <3>1
    <3>3. CASE chain[i].answer \in Readable
      <4>1. GetResult(i) /\ UNCHANGED <<error, pollTimer>>
        BY <1>6, <2>4, <3>3 DEF AnalysisStatus
      <4>2. Goes(i) BY <1>0, <2>1, <3>3, <4>1, ResultGoes
      <4>. QED BY <1>0, <1>1, <1>3, <2>1, <2>2, <3>1, <3>2, <4>1, <4>2 DEF Shows
    <3>4. CASE chain[i].answer \notin Readable
      <4>1. AfterStatus(i, chain[i].answer)
        BY <1>6, <2>4, <3>4 DEF AnalysisStatus
      <4>2. Goes(i) /\ pollTimer' \in {pollTimer, i} /\ error' \in BOOLEAN
        BY <1>0, <2>1, <4>1, AfterStatusGoes
      <4>. QED BY <1>0, <1>1, <1>3, <2>1, <2>2, <3>1, <3>2, <4>2 DEF Shows
    <3>. QED BY <3>3, <3>4
  <2>. QED BY <2>3, <2>4
<1>7. CASE Result(i) /\ chain[i].answer # "error"
  <2>1. /\ chain[i].at = "result" /\ UNCHANGED <<shown, generation>>
        /\ AfterStatus(i, chain[i].seen) /\ excused' \in BOOLEAN
        /\ result' = [job |-> chain[i].job, phase |-> chain[i].answer]
    BY <1>1, <1>7 DEF Result, Overtaken
  <2>2. chain[i].job \in Actions /\ chain[i].answer \in Phases
    BY <1>1, <2>1 DEF Sound, Polling
  <2>3. result' \in [job : Actions, phase : Phases] BY <1>2, <2>1, <2>2
  <2>4. Goes(i) /\ pollTimer' \in {pollTimer, i} /\ error' \in BOOLEAN
    BY <1>0, <2>1, AfterStatusGoes
  <2>. QED BY <1>0, <1>1, <2>1, <2>3, <2>4 DEF Shows
<1>8. CASE TtsStatus(i) /\ chain[i].answer # "error"
  <2>1. /\ chain[i].at = "status" /\ UNCHANGED <<result, generation>>
        /\ AfterStatus(i, chain[i].answer) /\ excused' \in BOOLEAN
        /\ shown' = [job |-> chain[i].job, phase |-> chain[i].answer]
    BY <1>1, <1>8 DEF TtsStatus, Overtaken
  <2>2. /\ chain[i].job \in Actions /\ server[chain[i].job] # "none"
        /\ chain[i].answer \in Phases
    BY <1>1, <2>1 DEF Sound, Polling
  <2>3. shown' \in [job : Actions, phase : Phases] BY <1>2, <2>1, <2>2
  <2>4. Goes(i) /\ pollTimer' \in {pollTimer, i} /\ error' \in BOOLEAN
    BY <1>0, <2>1, AfterStatusGoes
  <2>. QED BY <1>0, <1>1, <1>3, <2>1, <2>2, <2>3, <2>4 DEF Shows
<1>9. CASE Cloned(i)
  <2>1. Live(i) /\ End(i)
        /\ UNCHANGED <<shown, result, error, generation, pollTimer, excused>>
    BY <1>9 DEF Cloned, Live
  <2>. QED BY <1>0, <1>1, <2>1, EndGoes DEF Shows
<1>10. CASE Fire(i)
  <2>1. /\ chain[i].at = "timer" /\ UNCHANGED <<shown, result, error, generation, excused>>
        /\ Poll(i, chain[i].gen, generation') /\ pollTimer' \in {pollTimer, 0}
    BY <1>10 DEF Fire
  <2>2. Goes(i) BY <1>0, <2>1, PollGoes
  <2>. QED BY <1>0, <1>1, <2>1, <2>2 DEF Shows
<1>. QED BY <1>4, <1>5, <1>6, <1>7, <1>8, <1>9, <1>10 DEF Resume

-----------------------------------------------------------------------------
(* What the user does.                                                     *)

(* The other coroutines go on, but for one whose timer has been cleared.   *)
OthersStay ==
    \A k \in Actions : k # actions + 1 =>
        \/ chain'[k] = chain[k]
        \/ chain[k].at = "timer" /\ chain'[k] = Over(chain[k].job)

(* The coroutine c of a new action polls in a generation of its own, or    *)
(* will choose one when a retry is answered; the others are of the         *)
(* synthesis page, which shows no job then.                                *)
Opens(c) ==
    \/ /\ c.at \in {"create", "attach"}
       /\ c.gen = generation' /\ generation' = generation + 1
    \/ c.at = "retry" /\ generation' = generation
    \/ c.at = "clone" /\ generation' = generation /\ shown' = None
    \/ /\ c.at = "over" /\ generation' = generation + 1
       /\ shown' = None /\ page = "tts"

Acts ==
    /\ actions < MaxActions /\ actions' = actions + 1 /\ ~excused
    /\ UNCHANGED <<page, excused>>
    /\ chain' \in [Actions -> Coroutines] /\ OthersStay
    /\ \E n \in Actions, c \in Coroutines :
          n = actions + 1 /\ chain'[n] = c /\ Opens(c) /\ Sound(n, c)'
    /\ pollTimer' \in {pollTimer, 0} /\ error' = FALSE
    /\ server' \in [Actions -> Phases \cup {"none"}]
    /\ \A j \in Actions : server[j] # "none" => server'[j] # "none"
    /\ shown' \in {shown, None} /\ result' \in {result, None}

LEMMA StartChain ==
  ASSUME TypeInv, actions < MaxActions, NEW c \in Coroutines, Start(c)
  PROVE  /\ chain' \in [Actions -> Coroutines] /\ OthersStay
         /\ chain'[actions + 1] = c /\ pollTimer' = 0
<1>1. actions + 1 \in Actions BY DEF TypeInv, Actions
<1>2. \A i \in Actions : chain[i] \in Coroutines /\ Over(chain[i].job) \in Coroutines
  BY OverType DEF TypeInv, Coroutines
<1>3. chain' = [i \in Actions |->
                  IF i = actions + 1 THEN c
                  ELSE IF i = pollTimer /\ chain[i].at = "timer"
                  THEN Over(chain[i].job)
                  ELSE chain[i]]
      /\ pollTimer' = 0
  BY DEF Start
<1>4. chain' \in [Actions -> Coroutines] BY <1>2, <1>3
<1>5. OthersStay BY <1>3 DEF OthersStay
<1>. QED BY <1>1, <1>3, <1>4, <1>5

LEMMA CreateActs ==
  ASSUME TypeInv, Submit \/ AttachJob PROVE Acts
<1> DEFINE at == IF Submit THEN "create" ELSE "attach"
           p == IF Submit THEN "open" ELSE "readable"
           c == Coroutine(at, actions + 1, generation + 1, p)
<1>1. /\ actions < MaxActions /\ actions' = actions + 1 /\ ~excused
      /\ UNCHANGED <<page, excused>>
      /\ error' = FALSE /\ generation' = generation + 1
      /\ server' = [server EXCEPT ![actions + 1] = p]
      /\ shown' = shown /\ result' \in {result, None}
  BY DEF Submit, AttachJob, Act
<1>2. /\ actions + 1 \in Actions /\ actions + 1 \in 0..MaxActions
      /\ generation \in Nat /\ generation + 1 \in Nat
  BY <1>1 DEF TypeInv, Actions
<1>3. "create" \in Ats /\ "attach" \in Ats /\ p \in Phases /\ p # "none"
  BY DEF Ats, Waits, Phases
<1>4. /\ c \in Coroutines /\ c.at = at /\ c.job = actions + 1
      /\ c.gen = generation + 1 /\ c.answer = p
  BY <1>2, <1>3, CoroutineType
<1>5. Start(c)
  BY DEF Submit, AttachJob
<1>6. /\ server' \in [Actions -> Phases \cup {"none"}]
      /\ server'[actions + 1] = p
      /\ \A j \in Actions : server[j] # "none" => server'[j] # "none"
  BY <1>1, <1>2, <1>3 DEF TypeInv
<1>7. page' = "analysis" \/ at = "create" BY <1>1 DEF AttachJob
<1>8. at \in {"create", "attach"} OBVIOUS
<1>9. PICK n \in Actions, d \in Coroutines : n = actions + 1 /\ d = c
  BY <1>2, <1>4
<1> HIDE DEF c, at, p
<1>10. /\ chain' \in [Actions -> Coroutines] /\ OthersStay
       /\ chain'[n] = d /\ pollTimer' = 0
  BY <1>1, <1>5, <1>9, StartChain
<1>11. Sound(n, d)'
  BY <1>1, <1>2, <1>3, <1>4, <1>6, <1>7, <1>8, <1>9 DEF Sound, First, Polling
<1>12. Opens(d) BY <1>1, <1>4, <1>8, <1>9 DEF Opens
<1>. QED BY <1>1, <1>6, <1>9, <1>10, <1>11, <1>12 DEF Acts

LEMMA RetryActs ==
  ASSUME TypeInv, RetryAnalysisModule PROVE Acts
<1>1. /\ actions < MaxActions /\ actions' = actions + 1 /\ ~excused
      /\ UNCHANGED <<page, excused>> /\ page = "analysis" /\ shown # None
      /\ error' = FALSE
      /\ UNCHANGED <<generation, pollTimer, shown, result>>
  BY DEF RetryAnalysisModule, Act
<1>2. /\ actions + 1 \in Actions /\ generation \in Nat /\ 0 \in Nat
      /\ "retry" \in Ats
  BY <1>1 DEF TypeInv, Actions, Ats, Waits
<1>3. shown.job \in Actions /\ server[shown.job] # "none" BY <1>1 DEF TypeInv
<1>4. shown.job \in 0..MaxActions BY <1>3 DEF Actions
<1>5. PICK a \in Phases \cup {"error"} :
        /\ chain' = [chain EXCEPT ![actions + 1] = Coroutine("retry", shown.job, 0, a)]
        /\ \/ server' = server
           \/ a \in Phases /\ server' = [server EXCEPT ![shown.job] = a]
  <2>1. CASE Refuses(shown.job) BY <2>1 DEF Refuses
  <2>2. CASE Accepts(shown.job)
    <3> DEFINE p == IF server[shown.job] = "done" THEN "partial" ELSE server[shown.job]
    <3>1. p \in Phases BY <2>2 DEF Accepts, Readable, Phases
    <3>2. /\ server' = [server EXCEPT ![shown.job] = p]
          /\ chain' = [chain EXCEPT ![actions + 1] = Coroutine("retry", shown.job, 0, p)]
      BY <2>2 DEF Accepts
    <3>. QED BY <3>1, <3>2
  <2>. QED BY <2>1, <2>2 DEF RetryAnalysisModule
<1>6. PICK n \in Actions, c \in Coroutines :
        n = actions + 1 /\ c = Coroutine("retry", shown.job, 0, a)
  BY <1>2, <1>4, CoroutineType
<1>7. c.at = "retry" /\ c.job = shown.job /\ c.gen = 0 /\ c.answer = a
  BY <1>2, <1>4, <1>6, CoroutineType
<1>8. chain' \in [Actions -> Coroutines] /\ OthersStay /\ chain'[n] = c
  BY <1>5, <1>6 DEF TypeInv, OthersStay
<1>9. /\ server' \in [Actions -> Phases \cup {"none"}]
      /\ \A j \in Actions : server[j] # "none" => server'[j] # "none"
  BY <1>2, <1>3, <1>5 DEF TypeInv, Phases
<1>10. a \in Phases \cup {"error"} OBVIOUS
<1>11. Sound(n, c)'
  <2>1. n <= actions' /\ c.gen <= generation' /\ page' = "analysis"
    BY <1>1, <1>2, <1>6, <1>7 DEF TypeInv
  <2>2. c.job \in Actions /\ server'[c.job] # "none" BY <1>3, <1>7, <1>9
  <2>. QED BY <1>7, <1>10, <2>1, <2>2 DEF Sound, First, Polling
<1>12. Opens(c) BY <1>1, <1>7 DEF Opens
<1>. QED BY <1>1, <1>6, <1>8, <1>9, <1>11, <1>12 DEF Acts

LEMMA VoiceActs ==
  ASSUME TypeInv, UploadVoice \/ ResetResult PROVE Acts
<1>1. /\ actions < MaxActions /\ actions' = actions + 1 /\ ~excused
      /\ UNCHANGED <<page, excused>> /\ page = "tts"
      /\ error' = FALSE /\ shown' = None /\ UNCHANGED <<server, result>>
  BY DEF UploadVoice, ResetResult, Act
<1>2. /\ actions + 1 \in Actions /\ generation \in Nat /\ 0 \in 0..MaxActions
      /\ 0 \in Nat /\ "clone" \in Ats
  BY <1>1 DEF TypeInv, Actions, Ats, Waits
<1>3. server \in [Actions -> Phases \cup {"none"}] BY DEF TypeInv
<1>4. CASE UploadVoice
  <2>1. PICK n \in Actions, c \in Coroutines :
          n = actions + 1 /\ c = Coroutine("clone", 0, 0, "cloned")
    BY <1>2, CoroutineType
  <2>2. c.at = "clone" /\ c.gen = 0 BY <1>2, <2>1, CoroutineType
  <2>3. Start(c) /\ UNCHANGED generation BY <1>4, <2>1 DEF UploadVoice
  <2>4. /\ chain' \in [Actions -> Coroutines] /\ OthersStay
        /\ chain'[n] = c /\ pollTimer' = 0
    BY <1>1, <2>1, <2>3, StartChain
  <2>5. Sound(n, c)'
    BY <1>1, <1>2, <2>1, <2>2, <2>3 DEF Sound, First, Polling
  <2>6. Opens(c) BY <1>1, <2>2, <2>3 DEF Opens
  <2>. QED BY <1>1, <1>3, <2>1, <2>4, <2>5, <2>6 DEF Acts
<1>5. CASE ResetResult
  <2>1. PICK n \in Actions, c \in Coroutines : n = actions + 1 /\ c = Over(0)
    BY <1>2, OverType
  <2>2. c.at = "over" /\ c.gen = 0 BY <1>2, <2>1, OverType
  <2>3. Start(c) /\ generation' = generation + 1 BY <1>5, <2>1 DEF ResetResult
  <2>4. /\ chain' \in [Actions -> Coroutines] /\ OthersStay
        /\ chain'[n] = c /\ pollTimer' = 0
    BY <1>1, <2>1, <2>3, StartChain
  <2>5. Sound(n, c)'
    BY <1>1, <1>2, <2>1, <2>2, <2>3 DEF Sound, First, Polling
  <2>6. Opens(c) BY <1>1, <2>2, <2>3 DEF Opens
  <2>. QED BY <1>1, <1>3, <2>1, <2>4, <2>5, <2>6 DEF Acts
<1>. QED BY <1>4, <1>5

-----------------------------------------------------------------------------
(* Types and generations.                                                  *)

LEMMA RetryingCount ==
  /\ IsFiniteSet(Retrying) /\ Cardinality(Retrying) \in Nat
  /\ \A i \in Retrying : Cardinality(Retrying \ {i}) = Cardinality(Retrying) - 1
  /\ \A i \in Actions \ Retrying :
        Cardinality(Retrying \cup {i}) = Cardinality(Retrying) + 1
<1>1. IsFiniteSet(Actions) BY FS_Interval DEF Actions
<1>2. IsFiniteSet(Retrying) BY <1>1, FS_Subset DEF Retrying
<1>. QED BY <1>2, FS_CardinalityType, FS_RemoveElement, FS_AddElement

LEMMA GoesType ==
  ASSUME TypeInv, NEW i \in Actions, Goes(i), Shows,
         UNCHANGED <<page, server, actions>>, pollTimer' \in {pollTimer, i, 0}
  PROVE  TypeInv'
<1>1. PICK c \in Coroutines :
        /\ Becomes(i, c) /\ Sound(i, c)'
        /\ c.at \in {"over"} \cup Polling
        /\ \/ c.at = "over" /\ generation' = generation
           \/ c.gen = chain[i].gen /\ generation' = generation
              /\ chain[i].at # "retry"
           \/ c.gen = generation' /\ generation' = generation + 1
              /\ chain[i].at = "retry"
  BY DEF Goes
<1>2. /\ chain' \in [Actions -> Coroutines] /\ chain'[i] = c
      /\ \A k \in Actions : k # i => chain'[k] = chain[k]
  BY <1>1, BecomesChain DEF TypeInv
<1>3. /\ generation \in Nat /\ generation' \in Nat /\ actions \in 0..MaxActions
      /\ generation' \in {generation, generation + 1}
  BY <1>1 DEF TypeInv
<1>4. i <= actions BY DEF TypeInv, Sound, Goes, Live
<1>5. ASSUME NEW k \in Actions PROVE Sound(k, chain[k])'
  <2>1. CASE k = i
    <3>1. chain'[k] = c BY <1>2, <2>1
    <3>. QED BY <1>1, <2>1, <3>1 DEF Sound
  <2>2. CASE k # i
    <3>1. PICK d \in Coroutines : d = chain[k] BY DEF TypeInv
    <3>2. chain'[k] = d BY <1>2, <2>2, <3>1
    <3>3. Sound(k, d) BY <3>1 DEF TypeInv
    <3>4. Sound(k, d)' BY <1>3, <3>3, SoundStays
    <3>. QED BY <3>2, <3>4 DEF Sound
  <2>. QED BY <2>1, <2>2
<1>6. (generation + Cardinality(Retrying) <= actions)'
  <2>0. generation + Cardinality(Retrying) <= actions BY DEF TypeInv
  <2>1. c.at # "retry" BY <1>1 DEF Polling
  <2>2. CASE chain[i].at = "retry"
    <3>1. i \in Retrying BY <2>2 DEF Retrying
    <3>2. Retrying' = Retrying \ {i} BY <1>2, <2>1 DEF Retrying
    <3>3. Cardinality(Retrying') = Cardinality(Retrying) - 1
      BY <3>1, <3>2, RetryingCount
    <3>. QED BY <1>3, <2>0, <3>3, RetryingCount
  <2>3. CASE chain[i].at # "retry"
    <3>1. Retrying' = Retrying BY <1>2, <2>1, <2>3 DEF Retrying
    <3>2. generation' = generation BY <1>1, <2>3
    <3>. QED BY <2>0, <3>1, <3>2
  <2>. QED BY <2>2, <2>3
<1>7. pollTimer' \in 0..actions' BY <1>4 DEF TypeInv, Actions
<1>8. /\ page' \in {"analysis", "tts"}
      /\ server' \in [Actions -> Phases \cup {"none"}]
      /\ actions' \in 0..MaxActions
      /\ shown' # None => server'[shown'.job] # "none"
  BY DEF TypeInv, Shows
<1>. QED BY <1>2, <1>3, <1>5, <1>6, <1>7, <1>8 DEF TypeInv, Shows

LEMMA ActsType ==
  ASSUME TypeInv, Acts PROVE TypeInv'
<1>1. PICK n \in Actions, c \in Coroutines :
        n = actions + 1 /\ chain'[n] = c /\ Opens(c) /\ Sound(n, c)'
  BY DEF Acts
<1>2. /\ actions \in 0..MaxActions /\ actions' = actions + 1 /\ actions' \in 0..MaxActions
      /\ generation \in Nat /\ generation' \in Nat
      /\ generation' \in {generation, generation + 1}
      /\ generation' = generation + 1 => c.at # "retry"
  BY <1>1 DEF TypeInv, Acts, Opens
<1>3. ASSUME NEW k \in Actions PROVE Sound(k, chain[k])'
  <2>1. CASE k = n BY <1>1, <2>1 DEF Sound
  <2>2. CASE k # n
    <3>1. PICK d \in Coroutines : d = chain'[k] BY DEF Acts
    <3>2. /\ chain[k] \in Coroutines /\ Sound(k, chain[k])
          /\ chain[k].job \in 0..MaxActions
      BY DEF TypeInv, Coroutines
    <3>3. Sound(k, d) BY <1>1, <1>2, <2>2, <3>1, <3>2, SoundOver DEF Acts, OthersStay
    <3>4. \A j \in Actions : server[j] # "none" => server'[j] # "none" BY DEF Acts
    <3>5. Sound(k, d)' BY <1>2, <3>3, <3>4, SoundStays DEF Acts
    <3>. QED BY <3>1, <3>5 DEF Sound
  <2>. QED BY <2>1, <2>2
<1>4. (generation + Cardinality(Retrying) <= actions)'
  <2>0. generation + Cardinality(Retrying) <= actions BY DEF TypeInv
  <2>1. n \notin Retrying
    <3>1. Sound(n, chain[n]) BY DEF TypeInv
    <3>. QED BY <1>1, <1>2, <3>1 DEF Retrying, Sound
  <2>2. ASSUME NEW k \in Actions, k # n
        PROVE  chain'[k].at = "retry" <=> chain[k].at = "retry"
    <3>1. chain[k].job \in 0..MaxActions BY DEF TypeInv, Coroutines
    <3>. QED BY <1>1, <2>2, <3>1, OverType DEF Acts, OthersStay
  <2>3. CASE c.at = "retry"
    <3>1. Retrying' = Retrying \cup {n} BY <1>1, <2>2, <2>3 DEF Retrying
    <3>2. Cardinality(Retrying') = Cardinality(Retrying) + 1
      BY <2>1, <3>1, RetryingCount DEF Retrying
    <3>. QED BY <1>2, <2>0, <2>3, <3>2, RetryingCount
  <2>4. CASE c.at # "retry"
    <3>1. Retrying' = Retrying BY <1>1, <2>1, <2>2, <2>4 DEF Retrying
    <3>. QED BY <1>2, <2>0, <3>1, RetryingCount
  <2>. QED BY <2>3, <2>4
<1>5. pollTimer' \in 0..actions' BY <1>2 DEF TypeInv, Acts
<1>6. /\ page' \in {"analysis", "tts"} /\ error' \in BOOLEAN /\ excused' \in BOOLEAN
      /\ shown' \in [job : Actions, phase : Phases] \cup {None}
      /\ result' \in [job : Actions, phase : Phases] \cup {None}
  BY DEF TypeInv, Acts
<1>7. shown' # None => server'[shown'.job] # "none"
  <2>1. ASSUME shown' # None PROVE server'[shown'.job] # "none"
    <3>1. shown' = shown /\ shown.job \in Actions /\ server[shown.job] # "none"
      BY <2>1 DEF TypeInv, Acts
    <3>. QED BY <3>1 DEF Acts
  <2>. QED BY <2>1
<1>. QED BY <1>2, <1>3, <1>4, <1>5, <1>6, <1>7 DEF TypeInv, Acts

(* A job that was created keeps a phase.                                   *)
LEMMA ProgressServer ==
  ASSUME TypeInv, NEW j \in Actions, Progress(j)
  PROVE  /\ UNCHANGED <<page, shown, result, error, generation, pollTimer,
                        chain, actions, excused>>
         /\ server' \in [Actions -> Phases \cup {"none"}]
         /\ \A k \in Actions :
               /\ server[k] # "none" => server'[k] # "none"
               /\ server[k] \in {"done", "failed"} => server'[k] = server[k]
<1>1. /\ UNCHANGED <<page, shown, result, error, generation, pollTimer,
                     chain, actions, excused>>
      /\ server \in [Actions -> Phases \cup {"none"}]
  BY DEF Progress, TypeInv
<1>2. PICK p \in Successors(server[j]) : server' = [server EXCEPT ![j] = p]
  BY DEF Progress
<1>3. p \in Phases /\ p # "none" /\ server[j] \notin {"done", "failed"}
  BY <1>1, <1>2 DEF Successors, Phases
<1>. QED BY <1>1, <1>2, <1>3

LEMMA ProgressType ==
  ASSUME TypeInv, NEW j \in Actions, Progress(j) PROVE TypeInv'
<1>1. /\ UNCHANGED <<page, shown, result, error, generation, pollTimer,
                     chain, actions, excused>>
      /\ server' \in [Actions -> Phases \cup {"none"}]
      /\ \A k \in Actions : server[k] # "none" => server'[k] # "none"
  BY ProgressServer
<1>2. /\ actions \in Nat /\ generation \in Nat BY DEF TypeInv
<1>3. ASSUME NEW k \in Actions PROVE Sound(k, chain[k])'
  <2>1. PICK d \in Coroutines : d = chain[k] BY DEF TypeInv
  <2>2. Sound(k, d) BY <2>1 DEF TypeInv
  <2>3. Sound(k, d)' BY <1>1, <1>2, <2>2, SoundStays
  <2>. QED BY <1>1, <2>1, <2>3 DEF Sound
<1>4. Retrying' = Retrying BY <1>1 DEF Retrying
<1>5. shown' # None => server'[shown'.job] # "none"
  <2>1. ASSUME shown # None PROVE server'[shown.job] # "none"
    BY <1>1, <2>1 DEF TypeInv
  <2>. QED BY <1>1, <2>1
<1>. QED BY <1>1, <1>3, <1>4, <1>5 DEF TypeInv

LEMMA StepType ==
  ASSUME TypeInv, [Next]_vars PROVE TypeInv'
<1>1. CASE Submit \/ AttachJob BY <1>1, CreateActs, ActsType
<1>2. CASE RetryAnalysisModule BY <1>2, RetryActs, ActsType
<1>3. CASE UploadVoice \/ ResetResult BY <1>3, VoiceActs, ActsType
<1>4. ASSUME NEW j \in Actions, Progress(j) PROVE TypeInv' BY <1>4, ProgressType
<1>5. ASSUME NEW i \in Actions, Resume(i) \/ Fire(i) PROVE TypeInv'
  BY <1>5, ResumeGoes, GoesType
<1>6. CASE UNCHANGED vars
  BY <1>6 DEF vars, TypeInv, Sound, Retrying
<1>. QED BY <1>1, <1>2, <1>3, <1>4, <1>5, <1>6 DEF Next

-----------------------------------------------------------------------------
(* One poll of a generation.                                               *)

LEMMA StepOnePoll ==
  ASSUME TypeInv, OnePollOfAGeneration, [Next]_vars PROVE OnePollOfAGeneration'
<1>0. /\ \A i \in Actions : chain[i] \in Coroutines /\ Sound(i, chain[i])
      /\ \A i \in Actions : chain[i].gen \in Nat /\ chain[i].gen <= generation
      /\ generation \in Nat
  BY DEF TypeInv, Coroutines, Sound
<1>1. ASSUME Acts PROVE OnePollOfAGeneration'
  <2>1. PICK n \in Actions, c \in Coroutines :
          n = actions + 1 /\ chain'[n] = c /\ Opens(c) /\ Sound(n, c)'
    BY <1>1 DEF Acts
  <2>2. ASSUME NEW k \in Actions, k # n, Live(k)'
        PROVE  chain'[k] = chain[k] /\ Live(k)
    <3>1. chain[k].job \in 0..MaxActions BY <1>0 DEF Coroutines
    <3>. QED BY <1>1, <2>1, <2>2, <3>1, OverType DEF Acts, OthersStay, Live
  <2>3. ASSUME Live(n)', NEW k \in Actions, k # n
        PROVE  c.gen = 0 \/ c.gen > chain[k].gen
    <3>1. c.at # "over" BY <2>1, <2>3 DEF Live
    <3>2. c.gen = 0 \/ c.gen = generation + 1
      BY <2>1, <3>1 DEF Opens, Sound
    <3>. QED BY <1>0, <3>2
  <2>4. ASSUME NEW i \in Actions, NEW k \in Actions, Live(i)', Live(k)',
               chain'[i].gen = chain'[k].gen, chain'[i].gen # 0, i # k
        PROVE  FALSE
    <3>1. CASE i # n /\ k # n
      BY <2>2, <2>4, <3>1 DEF OnePollOfAGeneration
    <3>2. CASE i = n
      <4>1. chain'[k] = chain[k] BY <2>2, <2>4, <3>2
      <4>. QED BY <1>0, <2>1, <2>3, <2>4, <3>2, <4>1
    <3>3. CASE k = n
      <4>1. chain'[i] = chain[i] BY <2>2, <2>4, <3>3
      <4>. QED BY <1>0, <2>1, <2>3, <2>4, <3>3, <4>1
    <3>. QED BY <3>1, <3>2, <3>3
  <2>. QED BY <2>4 DEF OnePollOfAGeneration
<1>2. ASSUME NEW i \in Actions, Goes(i) PROVE OnePollOfAGeneration'
  <2>1. PICK c \in Coroutines :
          /\ Becomes(i, c)
          /\ \/ c.at = "over"
             \/ c.gen = chain[i].gen
             \/ c.gen = generation + 1
    BY <1>2 DEF Goes
  <2>2. /\ chain'[i] = c /\ Live(i)
        /\ \A k \in Actions : k # i => chain'[k] = chain[k]
    BY <1>2, <2>1, BecomesChain DEF TypeInv, Goes
  <2>3. ASSUME NEW h \in Actions, NEW k \in Actions, Live(h)', Live(k)',
               chain'[h].gen = chain'[k].gen, chain'[h].gen # 0, h # k
        PROVE  FALSE
    <3>1. CASE h # i /\ k # i
      <4>1. Live(h) /\ Live(k) BY <2>2, <2>3, <3>1 DEF Live
      <4>. QED BY <2>2, <2>3, <3>1, <4>1 DEF OnePollOfAGeneration
    <3>2. CASE h = i
      <4>1. Live(k) BY <2>2, <2>3, <3>2 DEF Live
      <4>2. c.at # "over" BY <2>2, <2>3, <3>2 DEF Live
      <4>3. chain[k].gen = c.gen BY <2>2, <2>3, <3>2
      <4>. QED BY <1>0, <2>1, <2>2, <2>3, <3>2, <4>1, <4>2, <4>3
           DEF OnePollOfAGeneration
    <3>3. CASE k = i
      <4>1. Live(h) BY <2>2, <2>3, <3>3 DEF Live
      <4>2. c.at # "over" BY <2>2, <2>3, <3>3 DEF Live
      <4>3. chain[h].gen = c.gen BY <2>2, <2>3, <3>3
      <4>. QED BY <1>0, <2>1, <2>2, <2>3, <3>3, <4>1, <4>2, <4>3
           DEF OnePollOfAGeneration
    <3>. QED BY <3>1, <3>2, <3>3
  <2>. QED BY <2>3 DEF OnePollOfAGeneration
<1>3. CASE Submit \/ AttachJob BY <1>1, <1>3, CreateActs
<1>4. CASE RetryAnalysisModule BY <1>1, <1>4, RetryActs
<1>5. CASE UploadVoice \/ ResetResult BY <1>1, <1>5, VoiceActs
<1>6. ASSUME NEW i \in Actions, Resume(i) \/ Fire(i) PROVE OnePollOfAGeneration'
  BY <1>2, <1>6, ResumeGoes
<1>7. ASSUME UNCHANGED chain PROVE OnePollOfAGeneration'
  BY <1>7 DEF OnePollOfAGeneration, Live
<1>8. ASSUME NEW j \in Actions, Progress(j) PROVE OnePollOfAGeneration'
  BY <1>7, <1>8 DEF Progress
<1>9. CASE UNCHANGED vars BY <1>7, <1>9 DEF vars
<1>. QED BY <1>3, <1>4, <1>5, <1>6, <1>8, <1>9 DEF Next

-----------------------------------------------------------------------------
(* What the page shows of the last action.                                 *)

LEMMA LatestActs ==
  ASSUME TypeInv, Acts PROVE LatestInv'
<1>1. PICK n \in Actions, c \in Coroutines :
        n = actions + 1 /\ chain'[n] = c /\ Opens(c) /\ Sound(n, c)'
  BY DEF Acts
<1>2. actions' = n /\ actions \in Nat /\ n # 0 BY <1>1 DEF Acts, TypeInv
<1>3. ASSUME generation' = generation + 1 PROVE Alone'
  <2>1. ASSUME NEW k \in Actions, k # n, Live(k)' PROVE chain'[k].gen # generation'
    <3>1. /\ chain[k] \in Coroutines /\ Sound(k, chain[k]) /\ generation \in Nat
          /\ chain[k].job \in 0..MaxActions
      BY DEF TypeInv, Coroutines
    <3>2. chain'[k] = chain[k]
      BY <1>1, <2>1, <3>1, OverType DEF Acts, OthersStay, Live
    <3>. QED BY <1>3, <3>1, <3>2 DEF Sound, Coroutines
  <2>. QED BY <1>2, <2>1 DEF Alone
<1>4. Shown(c)' BY <1>1, <1>3 DEF Opens, Shown, Acts, Polling
<1>. QED BY <1>1, <1>2, <1>4 DEF LatestInv, Shown

LEMMA LatestProgress ==
  ASSUME TypeInv, LatestInv, NEW j \in Actions, Progress(j) PROVE LatestInv'
<1>1. /\ UNCHANGED <<page, shown, result, error, generation, pollTimer,
                     chain, actions, excused>>
      /\ \A k \in Actions :
            server[k] \in {"done", "failed"} => server'[k] = server[k]
  BY ProgressServer
<1>2. CASE actions = 0 BY <1>1, <1>2 DEF LatestInv
<1>3. CASE actions # 0
  <2>1. actions \in Actions BY <1>3 DEF TypeInv, Actions
  <2>2. PICK c \in Coroutines : c = chain[actions] BY <2>1 DEF TypeInv
  <2>3. Shown(c) /\ Sound(actions, c) BY <1>3, <2>1, <2>2 DEF LatestInv, TypeInv
  <2>4. Alone' <=> Alone BY <1>1 DEF Alone, Live
  <2>5. c.job \in Actions \/ c.at \notin Polling BY <2>3 DEF Sound
  <2>6. shown # None => shown.job \in Actions BY DEF TypeInv
  <2>7. ASSUME c.at = "over" PROVE Shown(c)'
    <3>1. ASSUME shown = DoneOf(c), server[c.job] = "done" PROVE server'[c.job] = "done"
      <4>1. c.job \in Actions BY <2>6, <3>1 DEF DoneOf, None
      <4>. QED BY <1>1, <3>1, <4>1
    <3>. QED BY <1>1, <2>3, <2>4, <2>7, <3>1 DEF Shown, Polling, DoneOf
  <2>8. ASSUME c.at # "over" PROVE Shown(c)'
    BY <1>1, <2>3, <2>4, <2>5, <2>8 DEF Shown, Polling
  <2>9. Shown(c)' BY <2>7, <2>8
  <2>. QED BY <1>1, <1>3, <2>2, <2>9 DEF LatestInv, Shown
<1>. QED BY <1>2, <1>3

(* What the coroutine of an earlier action writes to the page, unless it   *)
(* is excused.                                                             *)
Writes(i) ==
    /\ generation' = generation /\ result' = result
    /\ error' \in {error, TRUE}
    /\ \/ shown' = shown
       \/ /\ chain[i].at = "status" /\ page = "analysis"
          /\ chain[i].gen = generation

LEMMA OtherWrites ==
  ASSUME TypeInv, NEW i \in Actions, i # actions, Resume(i) \/ Fire(i), ~excused'
  PROVE  Writes(i)
<1>0. error \in BOOLEAN BY DEF TypeInv
<1>1. CASE Raised(i) BY <1>1 DEF Raised, Writes
<1>2. CASE Began(i) BY <1>2 DEF Began, Overtaken
<1>3. CASE AnalysisStatus(i)
  BY <1>0, <1>3 DEF AnalysisStatus, Writes, AfterStatus
<1>4. CASE Result(i) BY <1>4 DEF Result, Overtaken
<1>5. CASE TtsStatus(i) BY <1>5 DEF TtsStatus, Overtaken
<1>6. CASE Cloned(i) BY <1>6 DEF Cloned, Writes
<1>7. CASE Fire(i) BY <1>7 DEF Fire, Writes
<1>. QED BY <1>1, <1>2, <1>3, <1>4, <1>5, <1>6, <1>7 DEF Resume

LEMMA LatestOther ==
  ASSUME TypeInv, LatestInv, NEW i \in Actions, i # actions,
         Resume(i) \/ Fire(i), ~excused'
  PROVE  LatestInv'
<1>1. Writes(i) BY OtherWrites
<1>2. UNCHANGED <<page, server, actions>> /\ Goes(i) BY ResumeGoes
<1>3. actions # 0 /\ actions \in Actions /\ Live(i)
  BY <1>2 DEF Goes, Live, TypeInv, Sound, Actions
<1>4. PICK c \in Coroutines :
        /\ Becomes(i, c) /\ (c.at = "over" \/ c.gen = chain[i].gen)
  BY <1>1, <1>2 DEF Goes, Writes, TypeInv
<1>5. /\ chain'[i] = c
      /\ \A k \in Actions : k # i => chain'[k] = chain[k]
  BY <1>4, BecomesChain DEF TypeInv
<1>6. Alone => Alone' BY <1>1, <1>2, <1>3, <1>4, <1>5 DEF Alone, Live, Writes
<1>7. PICK d \in Coroutines : d = chain[actions] BY <1>3 DEF TypeInv
<1>8. Shown(d) /\ Sound(actions, d) BY <1>3, <1>7 DEF LatestInv, TypeInv
<1>9. ASSUME shown' = shown PROVE Shown(d)'
  BY <1>1, <1>2, <1>6, <1>8, <1>9 DEF Shown, Writes, Polling, DoneOf
<1>10. ASSUME shown' # shown PROVE Shown(d)'
  <2>1. ~Alone /\ page = "analysis"
    BY <1>1, <1>3, <1>10 DEF Alone, Writes
  <2>2. d.at \in {"retry", "over"}
    BY <1>8, <2>1 DEF Shown, Sound, Polling, Coroutines, Ats, Waits
  <2>3. d.at = "over" => error' BY <1>1, <1>8, <2>1 DEF Shown, Writes
  <2>. QED BY <2>2, <2>3 DEF Shown, Polling
<1>11. Shown(d)' BY <1>9, <1>10
<1>12. chain'[actions'] = d BY <1>2, <1>3, <1>5, <1>7
<1>. QED BY <1>2, <1>3, <1>11, <1>12 DEF LatestInv, Shown

(* The last action's own coroutine.                                        *)
LEMMA LatestOwn ==
  ASSUME TypeInv, LatestInv, actions \in Actions,
         Resume(actions) \/ Fire(actions), ~excused'
  PROVE  LatestInv'
<1> DEFINE i == actions
<1>1. /\ UNCHANGED <<page, server, actions>> /\ Goes(i)
  BY ResumeGoes
<1>2. PICK d \in Coroutines : d = chain[i] BY DEF TypeInv
<1>3. /\ Shown(d) /\ Sound(i, d) /\ i # 0
      /\ error \in BOOLEAN /\ generation \in Nat
      /\ server \in [Actions -> Phases \cup {"none"}]
  BY <1>2 DEF LatestInv, TypeInv, Actions
<1>4. \A k \in Actions : chain[k].gen \in Nat /\ chain[k].gen <= generation
  BY DEF TypeInv, Sound, Coroutines
<1>5. ASSUME NEW c \in Coroutines, Becomes(i, c), Shown(c)' PROVE LatestInv'
  <2>1. chain'[i] = c BY <1>5, BecomesChain DEF TypeInv
  <2>. QED BY <1>1, <1>3, <1>5, <2>1 DEF LatestInv, Shown
<1>6. ASSUME NEW c \in Coroutines, Becomes(i, c),
             \/ Alone /\ generation' = generation
             \/ generation' = generation + 1
      PROVE  Alone'
  <2>1. \A k \in Actions : k # i => chain'[k] = chain[k]
    BY <1>6, BecomesChain DEF TypeInv
  <2>2. CASE Alone /\ generation' = generation
    BY <1>1, <2>1, <2>2 DEF Alone, Live
  <2>3. CASE generation' = generation + 1
    <3>1. \A k \in Actions : k # i => chain'[k].gen # generation'
      BY <1>3, <1>4, <2>1, <2>3
    <3>. QED BY <1>1, <3>1 DEF Alone
  <2>. QED BY <1>6, <2>2, <2>3
<1>7. ASSUME End(i)
      PROVE  \E c \in Coroutines : Becomes(i, c) /\ c.at = "over" /\ c.job = d.job
  <2>1. PICK c : EndCase(i, c) /\ Becomes(i, c) BY <1>7, ChainMoves DEF TypeInv
  <2>2. d.job \in 0..MaxActions BY DEF Coroutines
  <2>. QED BY <1>2, <2>1, <2>2, OverType DEF EndCase
<1>8. ASSUME d.at \in Polling, Sleep(i)
      PROVE  \E c \in Coroutines : /\ Becomes(i, c) /\ c.at = "timer"
                                   /\ c.job = d.job /\ c.gen = d.gen
  <2>1. PICK c : SleepCase(i, c) /\ Becomes(i, c) BY <1>8, ChainMoves DEF TypeInv
  <2>2. d.job \in 0..MaxActions /\ d.gen \in Nat /\ "timer" \in Ats
    BY DEF Coroutines, Ats
  <2>. QED BY <1>2, <2>1, <2>2, CoroutineType DEF SleepCase
<1>9. ASSUME NEW gen \in Nat, Poll(i, gen, gen), d.at \in First \cup Polling
      PROVE  \E c \in Coroutines :
                /\ Becomes(i, c) /\ c.at = "status" /\ c.job = d.job /\ c.gen = gen
                /\ c.answer = server[d.job]
  <2>1. PICK c : AskCase(i, gen, c) /\ Becomes(i, c) BY <1>9, ChainMoves DEF TypeInv
  <2>2. d.job \in Actions BY <1>3, <1>9 DEF Sound
  <2>3. d.job \in 0..MaxActions /\ "status" \in Ats /\ server[d.job] \in Phases \cup {"none"}
    BY <1>3, <2>2 DEF Coroutines, Ats, Waits
  <2>. QED BY <1>2, <2>1, <2>3, CoroutineType DEF AskCase
<1>0. i \in Actions OBVIOUS
<1> HIDE DEF i
<1>10. CASE Raised(i)
  <2>1. End(i) /\ error' BY <1>10 DEF Raised
  <2>2. PICK c \in Coroutines : Becomes(i, c) /\ c.at = "over" BY <1>7, <2>1
  <2>3. Shown(c)' BY <2>1, <2>2 DEF Shown, Polling
  <2>. QED BY <1>5, <2>2, <2>3
<1>11. CASE Began(i)
  <2>1. /\ d.at \in First
        /\ shown' = [job |-> d.job, phase |-> d.answer]
        /\ \/ /\ d.at = "retry" /\ generation' = generation + 1
              /\ Poll(i, generation', generation')
           \/ /\ d.at # "retry" /\ generation' = generation
              /\ Poll(i, d.gen, generation)
    BY <1>2, <1>11 DEF Began, First
  <2>2. Poll(i, generation', generation') /\ generation' \in Nat
        /\ \/ Alone /\ generation' = generation
           \/ generation' = generation + 1
    BY <1>3, <2>1 DEF Shown, First
  <2>3. PICK g \in Nat : g = generation' BY <2>2
  <2>4. PICK c \in Coroutines :
          /\ Becomes(i, c) /\ c.at = "status" /\ c.job = d.job /\ c.gen = g
          /\ c.answer = server[d.job]
    BY <1>9, <2>1, <2>2, <2>3
  <2>5. Alone' BY <1>6, <2>2, <2>4
  <2>6. shown' # None
    <3>1. d.job # 0 BY <1>3, <2>1 DEF Sound, Actions
    <3>. QED BY <2>1, <3>1 DEF None
  <2>7. Shown(c)' BY <1>1, <2>1, <2>3, <2>4, <2>5, <2>6 DEF Shown, Polling
  <2>. QED BY <1>5, <2>4, <2>7
<1>12. CASE AnalysisStatus(i) \/ TtsStatus(i)
  <2>1. /\ d.at = "status" /\ d.gen = generation /\ Alone /\ d.job \in Actions
        /\ d.answer \in {"done", "failed"} => server[d.job] = d.answer
    BY <1>2, <1>3, <1>12 DEF AnalysisStatus, TtsStatus, Shown, Sound, Polling
  <2>2. /\ shown' = [job |-> d.job, phase |-> d.answer]
        /\ generation' = generation
        /\ \/ /\ d.answer \in Readable /\ GetResult(i)
           \/ AfterStatus(i, d.answer) /\ (d.answer = "done" => page = "tts")
    BY <1>2, <1>12, <2>1 DEF AnalysisStatus, TtsStatus, Readable
  <2>3. shown' # None /\ d.job # 0
    BY <2>1, <2>2 DEF None, Actions
  <2>4. CASE d.answer \in Readable /\ GetResult(i)
    <3>1. PICK c : ResultCase(i, c) /\ Becomes(i, c)
      BY <1>0, <2>4, ChainMoves DEF TypeInv
    <3>2. /\ c.at = "result" /\ c.job = d.job /\ c.gen = d.gen
          /\ c.seen = d.answer /\ c.answer = server[d.job]
      BY <1>2, <3>1 DEF ResultCase
    <3>3. c \in Coroutines
      <4>1. c = [at |-> "result", job |-> d.job, gen |-> d.gen,
                 seen |-> d.answer, answer |-> server[d.job]]
        BY <1>2, <3>1 DEF ResultCase
      <4>2. server[d.job] \in Phases \cup {"none"} BY <1>3, <2>1
      <4>. QED BY <2>4, <4>1, <4>2 DEF Coroutines, Ats, Waits, Phases, Readable
    <3>4. Alone' BY <1>6, <2>1, <2>2, <3>1, <3>3
    <3>5. Shown(c)'
      BY <1>1, <2>1, <2>2, <2>3, <3>2, <3>4 DEF Shown, Polling
    <3>. QED BY <1>5, <3>1, <3>3, <3>5
  <2>5. CASE AfterStatus(i, d.answer) /\ (d.answer = "done" => page = "tts")
    <3>1. CASE d.answer \in {"done", "failed", "broken"}
      <4>1. End(i) /\ (d.answer \in {"failed", "broken"} => error')
        BY <2>5, <3>1 DEF AfterStatus
      <4>2. PICK c \in Coroutines : Becomes(i, c) /\ c.at = "over" /\ c.job = d.job
        BY <1>7, <4>1
      <4>3. Shown(c)'
        BY <1>1, <2>1, <2>2, <2>5, <3>1, <4>1, <4>2 DEF Shown, Polling, DoneOf
      <4>. QED BY <1>5, <4>2, <4>3
    <3>2. CASE d.answer \notin {"done", "failed", "broken"}
      <4>1. Sleep(i) BY <2>5, <3>2 DEF AfterStatus
      <4>2. PICK c \in Coroutines :
              Becomes(i, c) /\ c.at = "timer" /\ c.job = d.job /\ c.gen = d.gen
        BY <1>8, <2>1, <4>1 DEF Polling
      <4>3. Alone' BY <1>6, <2>1, <2>2, <4>2
      <4>4. Shown(c)' BY <1>1, <2>1, <2>2, <2>3, <4>2, <4>3 DEF Shown, Polling
      <4>. QED BY <1>5, <4>2, <4>4
    <3>. QED BY <3>1, <3>2
  <2>. QED BY <2>2, <2>4, <2>5
<1>13. CASE Result(i)
  <2>1. /\ d.at = "result" /\ UNCHANGED <<shown, generation>>
        /\ AfterStatus(i, d.seen)
        /\ result' = [job |-> d.job, phase |-> d.answer]
    BY <1>2, <1>13 DEF Result
  <2>2. /\ d.gen = generation /\ Alone /\ shown # None
        /\ shown.job = d.job /\ shown.phase = d.seen
        /\ d.seen = "done" => server[d.job] = "done" /\ d.answer = "done"
        /\ d.seen \in {"readable", "partial", "done", "broken"}
    BY <1>3, <2>1 DEF Shown, Polling, Sound, Readable
  <2>3. shown = [job |-> d.job, phase |-> d.seen]
    BY <2>2 DEF TypeInv
  <2>4. CASE d.seen = "done"
    <3>1. End(i) BY <2>1, <2>4 DEF AfterStatus
    <3>2. PICK c \in Coroutines : Becomes(i, c) /\ c.at = "over" /\ c.job = d.job
      BY <1>7, <3>1
    <3>3. Alone' BY <1>6, <2>1, <2>2, <3>2
    <3>4. Shown(c)'
      BY <1>1, <2>1, <2>2, <2>3, <2>4, <3>2, <3>3 DEF Shown, Polling, DoneOf
    <3>. QED BY <1>5, <3>2, <3>4
  <2>5. CASE d.seen = "broken"
    <3>1. End(i) /\ error' BY <2>1, <2>5 DEF AfterStatus
    <3>2. PICK c \in Coroutines : Becomes(i, c) /\ c.at = "over" BY <1>7, <3>1
    <3>3. Shown(c)' BY <3>1, <3>2 DEF Shown, Polling
    <3>. QED BY <1>5, <3>2, <3>3
  <2>6. CASE d.seen \notin {"done", "broken"}
    <3>1. Sleep(i) BY <2>1, <2>2, <2>6 DEF AfterStatus
    <3>2. PICK c \in Coroutines :
            Becomes(i, c) /\ c.at = "timer" /\ c.job = d.job /\ c.gen = d.gen
      BY <1>8, <2>1, <3>1 DEF Polling
    <3>3. Alone' BY <1>6, <2>1, <2>2, <3>2
    <3>4. Shown(c)' BY <1>1, <2>1, <2>2, <3>2, <3>3 DEF Shown, Polling
    <3>. QED BY <1>5, <3>2, <3>4
  <2>. QED BY <2>4, <2>5, <2>6
<1>14. CASE Cloned(i)
  <2>1. d.at = "clone" /\ End(i) /\ UNCHANGED <<shown, error>>
    BY <1>2, <1>14 DEF Cloned
  <2>2. shown = None /\ page = "tts" BY <1>3, <2>1 DEF Shown, Sound
  <2>3. PICK c \in Coroutines : Becomes(i, c) /\ c.at = "over" BY <1>7, <2>1
  <2>4. Shown(c)' BY <1>1, <2>1, <2>2, <2>3 DEF Shown, Polling
  <2>. QED BY <1>5, <2>3, <2>4
<1>15. CASE Fire(i)
  <2>1. /\ d.at = "timer" /\ UNCHANGED <<shown, generation>>
        /\ Poll(i, d.gen, generation)
    BY <1>2, <1>15 DEF Fire
  <2>2. d.gen = generation /\ Alone /\ shown # None /\ shown.job = d.job
    BY <1>3, <2>1 DEF Shown, Polling
  <2>3. PICK c \in Coroutines :
          /\ Becomes(i, c) /\ c.at = "status" /\ c.job = d.job /\ c.gen = d.gen
          /\ c.answer = server[d.job]
    BY <1>3, <1>9, <2>1, <2>2 DEF Polling
  <2>4. Alone' BY <1>6, <2>1, <2>2, <2>3
  <2>5. Shown(c)' BY <1>1, <2>1, <2>2, <2>3, <2>4 DEF Shown, Polling
  <2>. QED BY <1>5, <2>3, <2>5
<1>. QED BY <1>10, <1>11, <1>12, <1>13, <1>14, <1>15 DEF Resume, i

-----------------------------------------------------------------------------
LEMMA InitIInv == ASSUME Init PROVE IInv
<1>1. /\ \A i \in Actions : chain[i] = Coroutine("none", 0, 0, "none")
      /\ actions = 0 /\ shown = None /\ generation = 0
  BY DEF Init
<1>2. Coroutine("none", 0, 0, "none") \in Coroutines
      /\ Coroutine("none", 0, 0, "none").at = "none"
      /\ Coroutine("none", 0, 0, "none").gen = 0
  BY CoroutineType DEF Ats, Phases
<1>3. Retrying = {} BY <1>1, <1>2 DEF Retrying
<1>4. \A i \in Actions : Sound(i, chain[i])
  BY <1>1, <1>2 DEF Sound, First, Polling
<1>5. TypeInv
  <2>1. Cardinality(Retrying) = 0 BY <1>3, FS_EmptySet
  <2>2. chain \in [Actions -> Coroutines] BY <1>1, <1>2 DEF Init
  <2>3. server \in [Actions -> Phases \cup {"none"}] BY DEF Init
  <2>4. /\ page \in {"analysis", "tts"} /\ shown = None /\ result = None
        /\ error = FALSE /\ excused = FALSE
        /\ actions = 0 /\ pollTimer = 0 /\ generation = 0
    BY DEF Init
  <2>6. error \in BOOLEAN /\ excused \in BOOLEAN BY <2>4
  <2>7. actions \in 0..MaxActions /\ pollTimer \in 0..actions /\ generation \in Nat
    BY <2>4
  <2>5. generation + Cardinality(Retrying) <= actions BY <1>1, <2>1
  <2>. QED BY <1>4, <2>2, <2>3, <2>4, <2>5, <2>6, <2>7 DEF TypeInv
<1>6. OnePollOfAGeneration BY <1>1, <1>2 DEF OnePollOfAGeneration, Live
<1>. QED BY <1>1, <1>5, <1>6 DEF IInv, LatestInv

LEMMA StepIInv == ASSUME IInv, [Next]_vars PROVE IInv'
<1>1. TypeInv /\ OnePollOfAGeneration BY DEF IInv
<1>2. TypeInv' /\ OnePollOfAGeneration' BY <1>1, StepType, StepOnePoll
<1>3. ASSUME ~excused' PROVE LatestInv'
  <2>1. CASE Submit \/ AttachJob BY <1>1, <2>1, CreateActs, LatestActs
  <2>2. CASE RetryAnalysisModule BY <1>1, <2>2, RetryActs, LatestActs
  <2>3. CASE UploadVoice \/ ResetResult BY <1>1, <2>3, VoiceActs, LatestActs
  <2>4. ASSUME NEW j \in Actions, Progress(j) PROVE LatestInv'
    <3>1. LatestInv BY <1>3, <2>4, ProgressServer, <1>1 DEF IInv
    <3>. QED BY <1>1, <2>4, <3>1, LatestProgress
  <2>5. ASSUME NEW i \in Actions, Resume(i) \/ Fire(i) PROVE LatestInv'
    <3>1. LatestInv
      <4>1. excused => excused'
        BY <2>5 DEF Resume, Fire, Raised, Began, AnalysisStatus, Result, TtsStatus,
                    Cloned, Overtaken
      <4>. QED BY <1>3, <4>1 DEF IInv
    <3>2. CASE i = actions BY <1>1, <1>3, <2>5, <3>1, <3>2, LatestOwn
    <3>3. CASE i # actions BY <1>1, <1>3, <2>5, <3>1, <3>3, LatestOther
    <3>. QED BY <3>2, <3>3
  <2>6. CASE UNCHANGED vars
    <3>1. LatestInv BY <1>3, <2>6 DEF IInv, vars
    <3>. QED BY <2>6, <3>1 DEF vars, LatestInv, Shown, Alone, Live
  <2>. QED BY <2>1, <2>2, <2>3, <2>4, <2>5, <2>6 DEF Next
<1>. QED BY <1>2, <1>3 DEF IInv

(* What the page shows is tied to the coroutine of the last action by a    *)
(* generation that nobody else has.                                        *)
THEOREM Invariance == Spec => []IInv
<1>1. Init => IInv BY InitIInv
<1>2. IInv /\ [Next]_vars => IInv' BY StepIInv
<1>. QED BY <1>1, <1>2, PTL DEF Spec

(* Each generation is polled by one coroutine at most, so that the         *)
(* statuses of a job come to the page in the order they were asked for.    *)
THEOREM OneCoroutinePolls == Spec => []PollsInv
<1>1. IInv => PollsInv
  <2> SUFFICES ASSUME IInv PROVE TypeOK BY DEF IInv, PollsInv
  <2>1. TypeInv BY DEF IInv
  <2>2. /\ generation \in Nat /\ actions \in 0..MaxActions /\ generation <= actions
    BY <2>1, RetryingCount DEF TypeInv
  <2>3. generation \in 0..MaxActions * 2 BY <2>2
  <2>4. \A i \in Actions : Live(i) => i <= actions BY <2>1 DEF TypeInv, Sound, Live
  <2>5. shown.job \in 0..MaxActions /\ result.job \in 0..MaxActions
        /\ shown.phase \in Phases \cup {"none"} /\ result.phase \in Phases \cup {"none"}
    BY <2>1 DEF TypeInv, None, Actions
  <2>. QED BY <2>1, <2>3, <2>4, <2>5 DEF TypeInv, TypeOK
<1>. QED BY <1>1, Invariance, PTL

(* When nothing is under way any more, the page shows the last job as the  *)
(* server has it, with its result, whatever answers came late: unless a    *)
(* request failed or a late answer was written without a look at the       *)
(* generation.                                                             *)
THEOREM PageSettles == Spec => []SettledPageIsCurrent
<1>1. IInv => SettledPageIsCurrent
  <2> SUFFICES ASSUME IInv, \A i \in Actions : ~Live(i), shown # None, ~error, ~excused
               PROVE  /\ shown = [job |-> chain[actions].job, phase |-> server[shown.job]]
                      /\ page = "analysis" => result = shown
    BY DEF SettledPageIsCurrent
  <2>1. TypeInv /\ LatestInv BY DEF IInv
  <2>2. actions # 0 /\ actions \in Actions BY <2>1 DEF LatestInv, TypeInv, Actions
  <2>3. Shown(chain[actions]) BY <2>1, <2>2 DEF LatestInv
  <2>4. chain[actions].at = "over" BY <2>2, <2>3 DEF Shown, Live
  <2>5. /\ shown = DoneOf(chain[actions]) /\ server[chain[actions].job] = "done"
        /\ page = "analysis" => result = shown
    BY <2>3, <2>4 DEF Shown
  <2>. QED BY <2>5 DEF DoneOf
<1>. QED BY <1>1, Invariance, PTL
=============================================================================
