----------------------------- MODULE Subsequences -----------------------------
(***************************************************************************)
(* What is left of a sequence when some of its places are kept: SelectSeq  *)
(* by place, which the provers can reason about.                           *)
(***************************************************************************)
EXTENDS Integers, Sequences, FiniteSets

(* The integers of a finite set, in order.                                 *)
Below(I, i) == {j \in I : j < i}
Ascending(I) ==
    [n \in 1..Cardinality(I) |-> CHOOSE i \in I : Cardinality(Below(I, i)) = n - 1]

(* The items of s at the places I.                                         *)
Chosen(s, I) == [n \in 1..Cardinality(I) |-> s[Ascending(I)[n]]]
=============================================================================
