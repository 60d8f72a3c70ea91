------------------------------ MODULE Transcripts ------------------------------
(***************************************************************************)
(* The analysis of one recording by AnalysisPipeline: the channels are     *)
(* split and recognized, in this process or by the batch recognition of    *)
(* the recognition service, their lines merged, and then read by emotion   *)
(* and quality or by the summary.  AnalysisJobs has the interleavings of  *)
(* these modules and what is saved; here is what they compute, and a       *)
(* behaviour follows the one or the other.                                 *)
(*                                                                         *)
(* Time is counted in units that are as long as a few audio frames.  What  *)
(* the models say of the audio is chosen from sets of inputs.              *)
(***************************************************************************)
EXTENDS Recognizer

CONSTANTS
    Said,           \* per channel, what the recognition model may say, and
                    \* the intervals in which its VAD hears speech
    Duration,       \* of the recording
    MaxWindow,      \* 4000 ms of a line are heard for its emotion
    MaxPrompt,      \* 12000 characters of lines in one request for a summary
    Frame,          \* what a line has beside its text in such a request
    RiskCounts      \* bound: how many hits there may be

Channels == {"sales", "customer"}

ASSUME LimitsAssumption ==
    /\ {MaxChars, MaxGap, MaxSpan, MinSpan, Duration, MaxWindow, MaxPrompt} \subseteq Nat \ {0}
    /\ Frame \in Nat /\ RiskCounts \subseteq Nat
    /\ MinSpan <= MaxWindow

Clauses == [n : Nat \ {0}, mark : {"", ",", "."}]
Times == Int \X Int
Sayings == [text : Seq(Seq(Clauses)),
            sentences : Seq([text : Seq(Clauses), start : Int, end : Int]),
            span : {<<>>} \cup Times, stamps : Seq(Times), vad : Seq(Times)]

ASSUME SaidAssumption == \A c \in Channels : Said[c] \subseteq Sayings

VARIABLES
    stage,          \* "split", "sales", "customer", "merge", "transcribed",
                    \* "score", "summary", "done", "failed"
    route,          \* "local" or "remote" recognition
    said,           \* what the model said of each channel
    lines,          \* the lines of each channel
    transcript,     \* the lines of both, with their speakers
    clips,          \* the pieces of audio given to the emotion model
    negatives,      \* lines with a negative emotion
    report,         \* the quality report
    chunks,         \* the parts of the transcript in the summary's requests
    asked           \* requests for a summary that have been answered

inputs == <<route, said, lines>>
results == <<clips, negatives, report, chunks, asked>>
analysis == <<stage, inputs, transcript, results>>

Nothing == [text |-> <<>>, sentences |-> <<>>, span |-> <<>>, stamps |-> <<>>, vad |-> <<>>]

AnalysisInit ==
    /\ stage = "split" /\ route \in {"local", "remote"}
    /\ said = [c \in Channels |-> Nothing]
    /\ lines = [c \in Channels |-> <<>>]
    /\ transcript = <<>> /\ clips = <<>> /\ negatives = 0
    /\ report = [score |-> 100, interruptions |-> 0, talk |-> [c \in Channels |-> 0]]
    /\ chunks = <<>> /\ asked = 0

Raise ==
    /\ stage' = "failed"
    /\ UNCHANGED <<inputs, transcript, results>>

-----------------------------------------------------------------------------
(* split_required_stereo: recordings that are not stereo, or that cannot   *)
(* be decoded, are refused.                                                *)
Split ==
    /\ stage = "split"
    /\ \/ stage' = "sales" /\ UNCHANGED <<inputs, transcript, results>>
       \/ Raise

(* A channel is recognized: the right one is the seller's and comes first, *)
(* here as in FunAsrBatchEngine.  The model may raise.                     *)
Recognize(c) ==
    /\ stage = c
    /\ \/ \E s \in Said[c] :
             /\ said' = [said EXCEPT ![c] = s]
             /\ lines' = [lines EXCEPT ![c] = TranscribeFile(s, s.vad, Duration)]
             /\ stage' = IF c = "sales" THEN "customer" ELSE "merge"
             /\ UNCHANGED <<route, transcript, results>>
       \/ Raise

(* Sorting by start, end and speaker, where "customer" comes before        *)
(* "sales".                                                                *)
MergeChannelSegments(sales, customer) ==
    LET tag(ls, c) == [i \in DOMAIN ls |->
                          [speaker |-> c, text |-> ls[i].text,
                           start |-> ls[i].start, end |-> ls[i].end]]
        all == tag(customer, "customer") \o tag(sales, "sales")
        earlier(i, j) ==
            \/ all[i].start < all[j].start
            \/ all[i].start = all[j].start /\ all[i].end < all[j].end
            \/ all[i].start = all[j].start /\ all[i].end = all[j].end /\ i < j
        before(i) == {j \in DOMAIN all : earlier(j, i)}
    IN [k \in DOMAIN all |->
           all[CHOOSE i \in DOMAIN all : Cardinality(before(i)) = k - 1]]

(* Recognition in this process fails without any line; the service's       *)
(* answer, sorted over there, is taken as it is, with ends that come after *)
(* the starts.                                                             *)
Merge ==
    /\ stage = "merge"
    /\ LET merged == MergeChannelSegments(lines["sales"], lines["customer"]) IN
          IF route = "local" /\ merged = <<>> THEN Raise
          ELSE /\ transcript' =
                     IF route = "local" THEN merged
                     ELSE [k \in DOMAIN merged |->
                              [merged[k] EXCEPT !.end = Max({merged[k].start + 1, @})]]
               /\ stage' = "transcribed"
               /\ UNCHANGED <<inputs, results>>

-----------------------------------------------------------------------------
(* _emotion_window: the middle of a long line *)
EmotionWindow(line) ==
    LET length == line.end - line.start
        offset == (length - MaxWindow) \div 2
    IN IF length <= MaxWindow THEN <<line.start, line.end>>
       ELSE <<line.start + offset, line.start + offset + MaxWindow>>

(* slice_wav: what there is of the window in the recording *)
SliceWav(window) ==
    LET start == Min({Duration, window[1]})
    IN <<start, Max({start, Min({Duration, window[2]})})>>

Clips == [k \in DOMAIN transcript |-> SliceWav(EmotionWindow(transcript[k]))]

(* analyze_emotion: one clip without frames fails the whole call, and so   *)
(* does a model that raises or gives another number of results.            *)
AnalyzeEmotion ==
    /\ stage = "transcribed"
    /\ \/ /\ \A k \in DOMAIN Clips : Clips[k][1] < Clips[k][2]
          /\ clips' = Clips
          /\ negatives' \in 0..Len(transcript)
          /\ stage' = "score"
          /\ UNCHANGED <<inputs, transcript, report, chunks, asked>>
       \/ Raise

Other(c) == IF c = "sales" THEN "customer" ELSE "sales"

(* Mutant: where a speaker stops is the end of the last line, not of the   *)
(* longest one.                                                            *)
InterruptionsLast(segments) ==
    LET step(acc, s) ==
            [count |-> acc.count + (IF s.start < acc.active[Other(s.speaker)] THEN 1 ELSE 0),
             active |-> [acc.active EXCEPT ![s.speaker] = s.end]]
    IN FoldLeft(step, [count |-> 0, active |-> [c \in Channels |-> -1]], segments).count

(* A line interrupts when it starts before the other speaker has stopped.  *)
Interruptions(segments) ==
    LET step(acc, s) ==
            [count |-> acc.count + (IF s.start < acc.active[Other(s.speaker)] THEN 1 ELSE 0),
             active |-> [acc.active EXCEPT ![s.speaker] = Max({@, s.end})]]
    IN FoldLeft(step, [count |-> 0, active |-> [c \in Channels |-> -1]], segments).count

TalkTime(c) ==
    MapThenSumSet(LAMBDA k : transcript[k].end - transcript[k].start,
                  {k \in DOMAIN transcript : transcript[k].speaker = c})

(* AudioPreprocessor.process finds a tenth of silence and medium noise in  *)
(* every recording; the remote route reports neither.                      *)
Deduction == IF route = "local" THEN 2 + 6 ELSE 0

(* QualityScorer.score, with the hits of scan_risks                        *)
ScoreQuality ==
    /\ stage = "score"
    /\ \E risks \in RiskCounts :
          LET share == IF transcript = <<>> THEN 0 ELSE (negatives * 12) \div Len(transcript)
          IN report' = [score |-> Max({0, 100 - Deduction - risks * 8 - share}),
                         interruptions |-> Interruptions(transcript),
                         talk |-> [c \in Channels |-> TalkTime(c)]]
    /\ stage' = "done"
    /\ UNCHANGED <<inputs, transcript, clips, negatives, chunks, asked>>

-----------------------------------------------------------------------------
(* Mutant: the chunk that a line does not fit into is not sent.            *)
PromptChunksLost(sizes) ==
    LET size(chunk) == FoldLeft(LAMBDA a, k : a + sizes[k] + 1, 0, chunk)
        join(cs, k) ==
            IF cs = <<>> \/ size(Last(cs)) + sizes[k] + 1 > MaxPrompt
            THEN (IF cs = <<>> THEN cs ELSE Front(cs)) \o <<<<k>>>>
            ELSE Append(Front(cs), Append(Last(cs), k))
    IN FoldLeft(join, <<>>, [k \in DOMAIN sizes |-> k])

(* _chunks: the lines, in groups that fit into a request                   *)
PromptChunks(sizes) ==
    LET size(chunk) == FoldLeft(LAMBDA a, k : a + sizes[k] + 1, 0, chunk)
        join(cs, k) ==
            IF cs = <<>> \/ size(Last(cs)) + sizes[k] + 1 > MaxPrompt
            THEN Append(cs, <<k>>)
            ELSE Append(Front(cs), Append(Last(cs), k))
    IN FoldLeft(join, <<>>, [k \in DOMAIN sizes |-> k])

Sizes == [k \in DOMAIN transcript |-> Length(transcript[k].text) + Frame]

(* DeepSeekSummaryProvider.generate: without a key for the service it      *)
(* raises, and nothing is asked about an empty call.                       *)
Summarize ==
    /\ stage = "transcribed"
    /\ \/ /\ chunks' = PromptChunks(Sizes)
          /\ stage' = IF transcript = <<>> THEN "done" ELSE "summary"
          /\ UNCHANGED <<inputs, transcript, clips, negatives, report, asked>>
       \/ Raise

(* One request after the other, for the facts of each chunk and then for   *)
(* the summary of those; a malformed answer is repaired once, and any      *)
(* failure is the failure of the whole.                                    *)
RequestSummary ==
    /\ stage = "summary"
    /\ \/ /\ asked' = asked + 1
          /\ stage' = IF asked' = (IF Len(chunks) = 1 THEN 1 ELSE Len(chunks) + 1)
                      THEN "done" ELSE "summary"
          /\ UNCHANGED <<inputs, transcript, clips, negatives, report, chunks>>
       \/ Raise

AnalysisNext ==
    \/ Split
    \/ \E c \in Channels : Recognize(c)
    \/ Merge
    \/ AnalyzeEmotion \/ ScoreQuality
    \/ Summarize \/ RequestSummary

AnalysisSpec == AnalysisInit /\ [][AnalysisNext]_analysis

-----------------------------------------------------------------------------
(* Times that do not run back: none ends before one above it starts, those *)
(* aside that do not last.                                                 *)
Forward(times) ==
    \A i, j \in DOMAIN times :
        /\ i <= j
        /\ times[i][1] < times[i][2] /\ times[j][1] < times[j][2]
        => times[i][1] < times[j][2]
Stretches(ls) == [i \in DOMAIN ls |-> <<ls[i].start, ls[i].end>>]
InTime(s) ==
    /\ Forward(Stretches(s.sentences))
    /\ Forward(s.stamps) /\ Forward(s.vad)
    /\ \A i \in DOMAIN s.vad : s.vad[i][1] >= 0

LinesOK ==
    /\ stage \in {"split", "sales", "customer", "merge", "transcribed",
                  "score", "summary", "done", "failed"}
    /\ route \in {"local", "remote"}
    /\ \A c \in Channels : \A i \in DOMAIN lines[c] :
          LET l == lines[c][i]
          IN l.text # <<>> /\ (InTime(said[c]) => 0 <= l.start /\ l.start < l.end)
    /\ Len(transcript) \in {0, Len(lines["sales"]) + Len(lines["customer"])}
    /\ negatives \in 0..Len(transcript)
    /\ report.score \in 0..100
    /\ asked \in 0..Len(chunks) + 1

Words(ls) == FlattenSeq([i \in DOMAIN ls |-> ls[i].text])

(* The model's own times are in order and apart, for the whole text.       *)
Apart(times) ==
    LET kept == Lasting(times)
    IN /\ \A i \in DOMAIN kept : kept[i][1] >= 0
       /\ \A i, j \in DOMAIN kept : i < j => kept[i][2] <= kept[j][1]
InOrder(ls) == \A i \in 1..Len(ls) - 1 : ls[i].end <= ls[i + 1].start
WellTimed(s) ==
    /\ s.sentences # <<>> =>
          /\ Words(s.sentences) = FlattenSeq(s.text)
          /\ \A i \in DOMAIN s.sentences :
                /\ s.sentences[i].text # <<>> /\ s.sentences[i].start >= 0
                /\ s.sentences[i].start < s.sentences[i].end
          /\ InOrder(s.sentences)
    /\ Apart(s.stamps) /\ Apart(s.vad)

(* There is a timestamp per spoken character, and a unit of time per       *)
(* character in every interval of speech.                                  *)
Aligned(s) ==
    /\ Len(Lasting(s.stamps)) \in {0, Spoken(FlattenSeq(s.text))}
    /\ \A i \in DOMAIN s.vad :
          s.vad[i][2] > s.vad[i][1] => s.vad[i][2] - s.vad[i][1] >= Spoken(FlattenSeq(s.text))

(* The model hears nothing after the end of the recording.                 *)
Within(times) == \A i \in DOMAIN times : times[i][2] <= Duration
InRecording(s) ==
    /\ Within(Stretches(s.sentences)) /\ Within(s.stamps) /\ Within(s.vad)
    /\ s.span # <<>> => s.span[2] <= Duration

(* Whatever the model says of a channel ends up in its lines, in its       *)
(* order and once, whichever of the three ways it takes; sentences with    *)
(* times that make no sense are dropped.                                   *)
NoWordIsLost ==
    stage \in {"merge", "transcribed"} => \A c \in Channels :
        WellTimed(said[c]) => Words(lines[c]) = FlattenSeq(said[c].text)

(* Lines have words, speakers and times, and the words are those that were *)
(* recognized.                                                             *)
WordsAreKept == LinesOK /\ NoWordIsLost

(* The lines of a channel follow each other without overlapping when its   *)
(* times are aligned, and so nobody is heard to interrupt himself.         *)
LinesAreApart ==
    stage \in {"merge", "transcribed"} => \A c \in Channels :
        WellTimed(said[c]) /\ Aligned(said[c]) => InOrder(lines[c])

(* Fragments with times of their own are joined into lines such that each  *)
(* line has one sentence at most and keeps to the limits, and none could   *)
(* have taken in the next fragment: a definition without the running line. *)
Grouped(fragments, ls) ==
    \E starts \in SUBSET (2..Len(fragments)) :
        LET cuts == Ascending(starts \cup {1, Len(fragments) + 1})
            group(k) == SubSeq(fragments, cuts[k], cuts[k + 1] - 1)
            fits(g) ==
                /\ \A i \in 1..Len(g) - 1 :
                      /\ ~EndsSentence(g[i].text)
                      /\ g[i + 1].start - g[i].end <= MaxGap
                /\ Len(g) > 1 => Length(Words(g)) <= MaxChars
                /\ \A i \in 2..Len(g) : g[i].end - g[1].start <= MaxSpan
        IN /\ Len(ls) = Len(cuts) - 1
           /\ \A k \in DOMAIN ls :
                 /\ ls[k] = Line(Words(group(k)), group(k)[1].start, Last(group(k)).end)
                 /\ fits(group(k))
                 /\ k < Len(ls) => ~fits(Append(group(k), group(k + 1)[1]))

LinesAreSentences ==
    stage \in {"merge", "transcribed"} => \A c \in Channels :
        said[c].sentences # <<>> /\ WellTimed(said[c])
            => Grouped(said[c].sentences, lines[c])

(* Lines neither overlap nor run on.                                       *)
LinesAreWellCut == LinesAreApart /\ LinesAreSentences

(* Where every word has its time, no line is refused by the emotion model  *)
(* for want of audio, and what it hears is a piece of the line.            *)
EveryLineIsHeard ==
    stage = "transcribed"
    /\ (\A c \in Channels : WellTimed(said[c]) /\ Aligned(said[c]) /\ InRecording(said[c]))
        => \A k \in DOMAIN Clips :
              /\ transcript[k].start <= Clips[k][1]
              /\ Clips[k][1] < Clips[k][2]
              /\ Clips[k][2] <= transcript[k].end
              /\ Clips[k][2] - Clips[k][1] <= MaxWindow

(* The report counts one interruption for every line that starts while a   *)
(* line of the other speaker that began earlier, or stands above it, still *)
(* goes on; there is none if and only if they never speak at once.         *)
InterruptionsAreOverlaps ==
    stage = "done" /\ chunks = <<>> /\ (\A c \in Channels : InTime(said[c])) =>
        LET over(i, k) == /\ transcript[i].speaker # transcript[k].speaker
                          /\ transcript[i].start < transcript[k].end
                          /\ transcript[k].start < transcript[i].end
            late == {k \in DOMAIN transcript : \E i \in 1..k - 1 : over(i, k)}
        IN report.interruptions = Cardinality(late)

(* The requests for a summary hold every line once, and none that fits is  *)
(* longer than the model takes.                                            *)
SummaryHasEveryLine ==
    stage = "summary" =>
        /\ FlattenSeq(chunks) = [k \in DOMAIN transcript |-> k]
        /\ \A i \in DOMAIN chunks :
              Len(chunks[i]) > 1 =>
                  MapThenSumSet(LAMBDA k : Sizes[k] + 1, ToSet(chunks[i])) <= MaxPrompt

(* No line is left out by what reads the transcript.                       *)
EveryLineIsRead == EveryLineIsHeard /\ SummaryHasEveryLine
=============================================================================
