------------------------------ MODULE JobRecord ------------------------------
(***************************************************************************)
(* What a client that polls GET /api/jobs/{id} and GET .../result may rely *)
(* on: the life of a job's row and of the results behind it, with nothing  *)
(* said of the coroutines, the executor and the errors that bring it       *)
(* about.  AnalysisJobs implements it.                                     *)
(***************************************************************************)
CONSTANTS Jobs, Analyses, Modules

VARIABLES status, moduleStatus, artifact

vars == <<status, moduleStatus, artifact>>

Open(j) == status[j] \in {"queued", "running"}
Readable(j) == moduleStatus[j]["transcript"] = "completed"

Init ==
    /\ status = [j \in Jobs |-> "none"]
    /\ moduleStatus = [j \in Jobs |-> [m \in Modules |-> "pending"]]
    /\ artifact = [j \in Jobs |-> [m \in Modules |-> FALSE]]

-----------------------------------------------------------------------------
(* The overall status.                                                     *)
Move(j, s) ==
    /\ status' = [status EXCEPT ![j] = s]
    /\ UNCHANGED <<moduleStatus, artifact>>

Submitted(j) == status[j] = "none" /\ Move(j, "queued")
Progressed(j) == Open(j) /\ Move(j, "running")
Failed(j) == Open(j) /\ Move(j, "failed")

(* Nobody is told "completed" before every analysis has been attempted.    *)
Completed(j) ==
    /\ status[j] = "running"
    /\ Readable(j)
    /\ \A m \in Analyses : moduleStatus[j][m] # "pending"
    /\ Move(j, "completed")

Interrupted ==
    /\ status' = [j \in Jobs |-> IF status[j] = "running" THEN "interrupted"
                                                         ELSE status[j]]
    /\ UNCHANGED <<moduleStatus, artifact>>

-----------------------------------------------------------------------------
(* The transcript belongs to an open job and is final once completed; the  *)
(* analyses need the transcript and may be run again at any time.          *)
MayWork(j, m) ==
    IF m = "transcript" THEN Open(j) /\ ~Readable(j) ELSE Readable(j)

Show(j, m, s) ==
    /\ moduleStatus' = [moduleStatus EXCEPT ![j][m] = s]
    /\ UNCHANGED <<status, artifact>>

Started(j, m) == MayWork(j, m) /\ Show(j, m, "running")
ModuleCompleted(j, m) == MayWork(j, m) /\ artifact[j][m] /\ Show(j, m, "completed")
ModuleFailed(j, m) ==
    /\ MayWork(j, m)
    /\ m # "transcript" => moduleStatus[j][m] # "pending"
    /\ Show(j, m, "failed")

Stored(j, m) ==
    /\ MayWork(j, m)
    /\ artifact' = [artifact EXCEPT ![j][m] = TRUE]
    /\ UNCHANGED <<status, moduleStatus>>

Next ==
    \/ \E j \in Jobs :
          Submitted(j) \/ Progressed(j) \/ Failed(j) \/ Completed(j)
    \/ \E j \in Jobs, m \in Modules :
          \/ Started(j, m) \/ ModuleCompleted(j, m)
          \/ ModuleFailed(j, m) \/ Stored(j, m)
    \/ Interrupted

Spec == Init /\ [][Next]_vars
=============================================================================
