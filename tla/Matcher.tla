------------------------------- MODULE Matcher -------------------------------
(***************************************************************************)
(* SensitiveScanner (sensitive/automaton.py): an Aho-Corasick automaton of *)
(* the enabled words, and the choice among overlapping hits.  A word and a *)
(* text are sequences of characters; a node of the automaton is the prefix *)
(* that leads to it, the root is <<>>.                                     *)
(***************************************************************************)
EXTENDS Integers, Sequences, FiniteSets, SequencesExt, FiniteSetsExt, TLC

Nodes(words) == {<<>>} \cup UNION {{SubSeq(w, 1, i) : i \in 1..Len(w)} : w \in words}

(* The while loops of from_entries and scan: from a node of this length or *)
(* shorter up the failure links, until some node goes on with c, or to the *)
(* root.                                                                   *)
Climb(nodes, fail, c, length) ==
    LET climb[n \in {m \in nodes : Len(m) <= length}] ==
            IF n = <<>> \/ Append(n, c) \in nodes THEN n ELSE climb[fail[n]]
    IN climb

(* Where the automaton stands after character c in node n.                 *)
Follow(nodes, fail, n, c) ==
    LET top == Climb(nodes, fail, c, Len(n))[n]
    IN IF Append(top, c) \in nodes THEN Append(top, c) ELSE <<>>

(* The failure links, in the order of from_entries' queue: those of shorter*)
(* nodes first.                                                            *)
FailLinks(nodes) ==
    LET fail[n \in nodes] ==
            IF Len(n) <= 1 THEN <<>>
            ELSE Follow(nodes, fail, fail[Front(n)], Last(n))
    IN fail

(* At each node the words that end there: its own and those of the node it *)
(* fails to.                                                               *)
Outputs(words, nodes, fail) ==
    LET outputs[n \in nodes] ==
            ({n} \cap words) \cup (IF n = <<>> THEN {} ELSE outputs[fail[n]])
    IN outputs

(* Mutant: a node has its own word only.                                   *)
AutomatonOwnWords(words) ==
    [n \in Nodes(words) |-> [fail |-> FailLinks(Nodes(words))[n], outputs |-> {n} \cap words]]

Automaton(words) ==
    LET nodes == Nodes(words)
        fail == FailLinks(nodes)
        outputs == Outputs(words, nodes, fail)
    IN [n \in nodes |-> [fail |-> fail[n], outputs |-> outputs[n]]]

(* The loop of scan(): with every character a state, and a raw hit for     *)
(* every word that ends there.                                             *)
Scanned(automaton, text) ==
    LET nodes == DOMAIN automaton
        fail == [n \in nodes |-> automaton[n].fail]
        scanned[i \in 0..Len(text)] ==
            IF i = 0 THEN [state |-> <<>>, hits |-> {}]
            ELSE LET before == scanned[i - 1]
                     state == Follow(nodes, fail, before.state, text[i])
                 IN [state |-> state,
                     hits |-> before.hits \cup
                                 {[start |-> i - Len(w), end |-> i, word |-> w]
                                     : w \in automaton[state].outputs}]
    IN scanned

RawHits(automaton, text) == Scanned(automaton, text)[Len(text)].hits

(* The order of _remove_overlaps: leftmost first, then longest.            *)
Before(g, h) == \/ g.start < h.start
                \/ g.start = h.start /\ g.end > h.end

Ordered(hits) ==
    [n \in 1..Cardinality(hits) |->
        CHOOSE h \in hits : Cardinality({g \in hits : Before(g, h)}) = n - 1]

Overlap(g, h) == g.start < h.end /\ h.start < g.end

(* Its loop: a hit is selected unless it overlaps one that is.             *)
Selections(ordered) ==
    LET selected[n \in 0..Len(ordered)] ==
            IF n = 0 THEN {}
            ELSE LET before == selected[n - 1]
                     h == ordered[n]
                 IN IF \E g \in before : Overlap(g, h) THEN before ELSE before \cup {h}
    IN selected

RemoveOverlaps(hits) ==
    LET ordered == Ordered(hits)
    IN Selections(ordered)[Len(ordered)]

Scan(automaton, text) == RemoveOverlaps(RawHits(automaton, text))

-----------------------------------------------------------------------------
(* What a scan should find, without an automaton: of all occurrences of    *)
(* the words, exactly those that no chosen one before them overlaps.       *)
Occurrences(words, text) ==
    UNION {{[start |-> i, end |-> i + Len(w), word |-> w]
               : i \in {j \in 0..(Len(text) - Len(w)) : SubSeq(text, j + 1, j + Len(w)) = w}}
           : w \in words}

IsLeftmostLongest(hits, words, text) ==
    LET all == Occurrences(words, text)
    IN /\ hits \subseteq all
       /\ \A h \in all :
             h \in hits <=> \A g \in hits : Before(g, h) => ~Overlap(g, h)
=============================================================================
