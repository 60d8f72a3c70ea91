SPECIFICATION Spec
CONSTANTS
    Jobs = {j1, j2}
    Nobody = Nobody
    Durable = TRUE
    MaxRetries = 1
    Faults = {"timeout", "crash", "queue"}
    MaxStops = 1
    MaxOutages = 1
    MaxSessions = 0
INVARIANTS
    CompletedAudioIsWhole
PROPERTIES
    FinishedStaysFinished
SYMMETRY JobSymmetry
CHECK_DEADLOCK FALSE
