--------------------------- MODULE MCAnalysisJobs ---------------------------
(***************************************************************************)
(* AnalysisJobs on small instances: what may fail in each run.             *)
(***************************************************************************)
EXTENDS AnalysisJobs, TLC

(* What the coroutines catch: liveness has to survive it.                  *)
ServiceFaults == {"download", "asr", "model", "summary"}

(* The disk, the database and the process itself.                          *)
StorageFaults == {"asr", "model", "storage", "db", "crash"}
=============================================================================
