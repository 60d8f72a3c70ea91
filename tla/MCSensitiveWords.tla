-------------------------- MODULE MCSensitiveWords --------------------------
(***************************************************************************)
(* SensitiveWords on a small instance: "A" folds to "a", "_" is a blank.   *)
(***************************************************************************)
EXTENDS SensitiveWords

CONSTANTS r1, r2
Serving == {r1, r2}
Entered == {[word |-> <<"a", "b">>, enabled |-> TRUE],
            [word |-> <<"A", "b">>, enabled |-> FALSE],
            [word |-> <<"b", "a", "b", "c">>, enabled |-> TRUE],
            [word |-> <<"_">>, enabled |-> TRUE]}
Symmetry == Permutations(Serving)
InFile == {<<"a", "b", "a">>, <<"b", "a", "a">>}
Folding == [c \in {"a", "A", "b", "c", "_"} |->
              CASE c = "A" -> <<"a">> [] c = "_" -> <<>> [] OTHER -> <<c>>]
Transcripts == {<<"b", "a", "b", "b", "a", "b", "c">>, <<"A", "a", "b", "a", "a", "b">>}

=============================================================================
