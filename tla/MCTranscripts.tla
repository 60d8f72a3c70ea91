---------------------------- MODULE MCTranscripts ----------------------------
(***************************************************************************)
(* Transcripts on small inputs.                                            *)
(***************************************************************************)
EXTENDS Transcripts

Clause(n, mark) == [n |-> n, mark |-> mark]
Phrase == <<Clause(1, ",")>>
LongPhrase == <<Clause(3, ",")>>
Ending == <<Clause(2, ".")>>
Rest == <<Clause(2, "")>>

Plain(blocks, vad) == [Nothing EXCEPT !.text = blocks, !.vad = vad]
Stamped(text, stamps) == [Nothing EXCEPT !.text = <<text>>, !.stamps = stamps]

(* Two or three fragments with pauses between them.                        *)
RECURSIVE Fragments(_, _)
Fragments(n, from) ==
    IF n = 0 THEN {<<>>}
    ELSE UNION {{<<Line(t, from + pause, from + pause + length)>> \o rest :
                    rest \in Fragments(n - 1, from + pause + length)} :
                t \in {Phrase, LongPhrase, Ending}, pause \in {0, 2}, length \in {1, 4}}

BySentence == {[Nothing EXCEPT !.text = <<Words(fs)>>, !.sentences = fs] :
                  fs \in {g \in Fragments(2, 0) \cup Fragments(3, 0) :
                             Last(g).end <= Duration}}

(* Text without times, in one or two blocks, and no, one or two intervals. *)
Blocks == {Phrase \o Ending, LongPhrase \o Phrase \o Rest, Ending \o LongPhrase \o Ending, <<>>}
ByInterval == {Plain(blocks, vad) :
                  blocks \in {<<a>> : a \in Blocks} \cup {<<a, b>> : a \in Blocks, b \in Blocks},
                  vad \in {<<>>, <<<<1, 8>>>>, <<<<0, 3>>, <<3, 10>>>>, <<<<2, 2>>, <<4, 7>>>>}}

(* Times of characters: as many as there are, fewer, more, and broken.     *)
ByCharacter == {Stamped(text, [i \in 1..m |-> <<i, i + 1>>]) :
                    text \in Blocks \ {<<>>}, m \in 1..8}
               \cup {Stamped(Ending \o Rest, <<<<2, 2>>, <<5, 4>>>>),
                     Stamped(<<>>, <<<<0, 1>>>>)}

Odd == {Nothing,
        [Plain(<<Ending \o Rest>>, <<>>) EXCEPT !.span = <<2, 6>>],
        [Plain(<<Ending \o Rest>>, <<>>) EXCEPT !.span = <<6, 2>>],
        [Plain(<<Ending \o Rest>>, <<<<0, 4>>>>) EXCEPT
            !.sentences = <<Line(Ending, 3, 3), Line(Rest, 4, 6)>>],
        [Plain(<<Ending>>, <<<<0, 4>>>>) EXCEPT !.sentences = <<Line(Ending, 3, 3)>>],
        [Plain(<<>>, <<<<0, 4>>>>) EXCEPT !.sentences = <<Line(<<>>, 3, 5)>>]}

(* The customer's recording meets each of the seller's.                    *)
Customer == Odd \cup {Plain(<<Ending, LongPhrase \o Rest>>, <<<<1, 3>>, <<4, 9>>>>),
                      Stamped(Ending \o LongPhrase, <<<<0, 1>>, <<2, 3>>, <<5, 6>>, <<8, 9>>>>),
                      [Nothing EXCEPT !.text = <<Ending \o Ending>>,
                                      !.sentences = <<Line(Ending, 0, 7), Line(Ending, 1, 2)>>],
                      [Nothing EXCEPT !.text = <<Ending \o Phrase \o Ending>>,
                                      !.sentences = <<Line(Ending, 0, 2), Line(Phrase, 2, 3),
                                                      Line(Ending, 9, 10)>>],
                      [Nothing EXCEPT !.text = <<Phrase \o Rest>>,
                                      !.sentences = <<Line(Phrase, 4, 6), Line(Rest, 1, 3)>>]}

Recordings == [c \in Channels |->
                  IF c = "sales" THEN BySentence \cup ByInterval \cup ByCharacter \cup Odd
                  ELSE Customer]
=============================================================================
