SPECIFICATION Spec
CONSTANTS
    Jobs = {j1, j2}
    Nobody = Nobody
    Durable = FALSE
    MaxRetries = 1
    Faults = {"timeout", "synthesis", "retention", "crash", "db"}
    MaxStops = 1
    MaxOutages = 1
    MaxSessions = 1
INVARIANTS
    TypeOK
    NoLostJob
    OneTokenPerJob
PROPERTIES
    EveryTtsJobEnds
CHECK_DEADLOCK FALSE
