----------------------------- MODULE MCTtsJobs -----------------------------
(***************************************************************************)
(* TtsJobs on small instances.  Jobs are interchangeable: the runs that    *)
(* check no liveness use it.                                               *)
(***************************************************************************)
EXTENDS TtsJobs, TLC

JobSymmetry == Permutations(Jobs)
=============================================================================
