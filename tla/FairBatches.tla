----------------------------- MODULE FairBatches -----------------------------
(***************************************************************************)
(* What the streams of the recognition service may rely on, without the    *)
(* queue, the lock and the ticks of BatchScheduler: each recognition       *)
(* session has a line of its own, in which its chunks wait in the order    *)
(* they were submitted; a batch takes the first chunk of some of the       *)
(* lines; and a stream that gives up leaves its line.                      *)
(***************************************************************************)
EXTENDS Integers, Sequences, FiniteSets, Subsequences

CONSTANTS Keys, Streams, MaxBatch

VARIABLES
    line,       \* line[k]: the streams whose chunk of session k is waiting
    batch       \* the streams whose chunks are being recognized

Ask(k, s) ==
    /\ \A i \in DOMAIN line[k] : line[k][i] # s
    /\ line' = [line EXCEPT ![k] = Append(@, s)]
    /\ UNCHANGED batch

Leave(k, s) ==
    /\ \E i \in DOMAIN line[k] : line[k][i] = s
    /\ line' = [line EXCEPT ![k] = Chosen(@, {i \in DOMAIN @ : @[i] # s})]
    /\ UNCHANGED batch

Take(K) ==
    /\ batch = {}
    /\ K # {} /\ Cardinality(K) <= MaxBatch
    /\ \A k \in K : line[k] # <<>>
    /\ batch' = {Head(line[k]) : k \in K}
    /\ line' = [k \in Keys |-> IF k \in K THEN Tail(line[k]) ELSE line[k]]

Recognized ==
    /\ batch # {}
    /\ batch' = {}
    /\ UNCHANGED line

(* The process stops: whoever is waiting has been told so.                 *)
Shut ==
    /\ line' = [k \in Keys |-> <<>>]
    /\ batch' = {}

Init == line = [k \in Keys |-> <<>>] /\ batch = {}

Next ==
    \/ \E k \in Keys, s \in Streams : Ask(k, s) \/ Leave(k, s)
    \/ \E K \in SUBSET Keys : Take(K)
    \/ Recognized
    \/ Shut

Spec == Init /\ [][Next]_<<line, batch>>
=============================================================================
