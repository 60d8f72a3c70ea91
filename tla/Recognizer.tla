------------------------------ MODULE Recognizer ------------------------------
(***************************************************************************)
(* How SenseVoiceProvider turns what the recognition model says of one     *)
(* channel into lines with times.                                          *)
(*                                                                         *)
(* A text is a sequence of clauses [n, mark]: n > 0 spoken characters and  *)
(* "," or "." (any mark that ends a sentence) or nothing after them, with  *)
(* the tags of rich text removed and the marks normalised.  Confidence,    *)
(* ids and the language are left out; the ratio of timestamps to spoken    *)
(* characters is exact, where the code multiplies by a float.              *)
(*                                                                         *)
(* What the model says is [text, sentences, span, stamps]: the text, as    *)
(* the blocks that rich tags mark in it, and, where the model gives them,  *)
(* sentences with times (sentence_info), the time of the item itself, and  *)
(* the times of its characters (timestamp).                                *)
(*                                                                         *)
(* Two cases are left out, which the model's answers hardly ever are.  Of  *)
(* a text with tags, _segments_from_vad_text drops what stands before the  *)
(* first ones: such text is not in `text`.  And where it joins blocks, one *)
(* that ends without a mark runs on into the next: the two clauses are one *)
(* for _split_sentences, and stay apart here.                              *)
(***************************************************************************)
EXTENDS Integers, Sequences, SequencesExt, FiniteSetsExt, Subsequences

CONSTANTS
    MaxChars,       \* 36 characters in a line
    MaxGap,         \* 1200 ms of silence within a line
    MaxSpan,        \* 15000 ms from the start of a line to its end
    MinSpan         \* 1000 ms, for a text without any time

Spoken(text) == FoldLeft(LAMBDA sum, c : sum + c.n, 0, text)
Length(text) ==
    FoldLeft(LAMBDA sum, c : sum + c.n + (IF c.mark = "" THEN 0 ELSE 1), 0, text)
EndsSentence(text) == Last(text).mark = "."
Line(text, start, end) == [text |-> text, start |-> start, end |-> end]

-----------------------------------------------------------------------------
(* Splitting a text.                                                       *)

Sentences(text) ==
    LET join(ss, c) == IF ss = <<>> \/ EndsSentence(Last(ss)) THEN Append(ss, <<c>>)
                       ELSE Append(Front(ss), Append(Last(ss), c))
    IN FoldLeft(join, <<>>, text)

(* Mutant: the clause that starts a new line is lost with the old one.     *)
ByClausesLoses(sentence) ==
    LET join(lines, c) ==
            IF lines # <<>> /\ Length(Last(lines)) + Length(<<c>>) > MaxChars
            THEN Append(lines, <<>>)
            ELSE IF lines = <<>> THEN <<<<c>>>> ELSE Append(Front(lines), Append(Last(lines), c))
    IN SelectSeq(FoldLeft(join, <<>>, sentence), LAMBDA l : l # <<>>)

ByClauses(sentence) ==
    LET join(lines, c) ==
            IF lines = <<>> \/ Length(Last(lines)) + Length(<<c>>) > MaxChars
            THEN Append(lines, <<c>>)
            ELSE Append(Front(lines), Append(Last(lines), c))
    IN FoldLeft(join, <<>>, sentence)

(* _split_sentences *)
SplitSentences(text) ==
    LET lines(s) == IF Length(s) <= MaxChars THEN <<s>> ELSE ByClauses(s)
        ss == Sentences(text)
    IN FlattenSeq([k \in DOMAIN ss |-> lines(ss[k])])

-----------------------------------------------------------------------------
(* Times for a text.                                                       *)

(* round(a / b), half to even *)
Round(a, b) ==
    LET q == a \div b  r == a % b
    IN IF 2 * r > b \/ (2 * r = b /\ q % 2 = 1) THEN q + 1 ELSE q

(* The lines of a text share its time by their spoken characters.          *)
Timed(text, start, end) ==
    LET lines == SplitSentences(text)
        before(i) == Spoken(FlattenSeq(SubSeq(lines, 1, i)))
        at(i) == start + Round((end - start) * before(i), before(Len(lines)))
    IN [i \in DOMAIN lines |->
           Line(lines[i], at(i - 1), Max({at(i - 1) + 1, at(i)}))]

(* The intervals that last: _vad_intervals, and the timestamps.            *)
Lasting(raw) == Chosen(raw, {i \in DOMAIN raw : raw[i][2] > raw[i][1]})

(* _segments_from_vad_text: block and interval in pairs when there are as  *)
(* many of each, or else the text over the whole time.                     *)
FromIntervals(text, intervals) ==
    LET blocks == Chosen(text, {i \in DOMAIN text : text[i] # <<>>})
    IN IF Len(blocks) = Len(intervals)
       THEN FlattenSeq([k \in DOMAIN blocks |->
                           Timed(blocks[k], intervals[k][1], intervals[k][2])])
       ELSE IF blocks # <<>> /\ intervals # <<>>
       THEN Timed(FlattenSeq(blocks), intervals[1][1], Last(intervals)[2])
       ELSE <<>>

(* Mutant: the end of a sentence is rounded down like its start.           *)
FromTimestampsShort(text, raw) ==
    LET stamps == Lasting(raw)
        m == Len(stamps)
        ss == Sentences(text)
        before(i) == Spoken(FlattenSeq(SubSeq(ss, 1, i)))
        first(i) == Min({m, (before(i - 1) * m) \div Spoken(text) + 1})
        last(i) == Min({m, Max({first(i), (before(i) * m) \div Spoken(text) + 1})})
    IN IF text = <<>> \/ m = 0 THEN <<>>
       ELSE [i \in DOMAIN ss |-> Line(ss[i], stamps[first(i)][1], stamps[last(i)][2])]

(* _sentences_from_timestamps: the i-th sentence has the timestamps that   *)
(* its spoken characters would have if they were spread evenly.            *)
FromTimestamps(text, raw) ==
    LET stamps == Lasting(raw)
        m == Len(stamps)
        ss == Sentences(text)
        before(i) == Spoken(FlattenSeq(SubSeq(ss, 1, i)))
        first(i) == Min({m, (before(i - 1) * m) \div Spoken(text) + 1})
        ceiling(i) == -((-(before(i) * m)) \div Spoken(text))
        last(i) == Min({m, Max({first(i), ceiling(i)})})
    IN IF text = <<>> \/ m = 0 THEN <<>>
       ELSE [i \in DOMAIN ss |-> Line(ss[i], stamps[first(i)][1], stamps[last(i)][2])]

-----------------------------------------------------------------------------
HasNativeTiming(said) == said.sentences # <<>> \/ said.stamps # <<>>

(* _parse_result: what the model says with times, or the text on its own.  *)
ParseResult(said, duration) ==
    LET text == FlattenSeq(said.text)
        timed == IF said.sentences # <<>> THEN said.sentences
                 ELSE IF said.span # <<>> THEN <<Line(text, said.span[1], said.span[2])>>
                 ELSE FromTimestamps(text, said.stamps)
        valid == Chosen(timed, {i \in DOMAIN timed :
                                   /\ timed[i].text # <<>> /\ timed[i].start >= 0
                                   /\ timed[i].end > timed[i].start})
    IN IF valid # <<>> THEN valid
       ELSE IF text # <<>> THEN <<Line(text, 0, Max({MinSpan, duration}))>>
       ELSE <<>>

(* _merge_timed_fragments: a fragment joins the line before it unless that *)
(* has ended its sentence, a pause lies between, or it would get too long. *)
MergeTimed(fragments) ==
    LET closes(line, f) ==
            \/ EndsSentence(line.text)
            \/ f.start - line.end > MaxGap
            \/ Length(line.text) + Length(f.text) > MaxChars
            \/ f.end - line.start > MaxSpan
        join(lines, f) ==
            IF lines = <<>> \/ closes(Last(lines), f) THEN Append(lines, f)
            ELSE Append(Front(lines),
                        Line(Last(lines).text \o f.text, Last(lines).start, f.end))
    IN FoldLeft(join, <<>>, fragments)

(* transcribe_file *)
TranscribeFile(said, vad, duration) ==
    LET native == ParseResult(said, duration)
        spoken == FromIntervals(said.text, Lasting(vad))
    IN IF HasNativeTiming(said) /\ native # <<>> THEN MergeTimed(native)
       ELSE IF spoken # <<>> THEN spoken
       ELSE native
=============================================================================
