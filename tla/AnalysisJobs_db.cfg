SPECIFICATION Spec
CONSTANTS
    Jobs = {j1}
    SourceTypes = {"upload", "url", "realtime"}
    Retries = {}
    RetryModules = {}
    Faults <- StorageFaults
INVARIANTS
    TypeOK
    CompletedHasArtifact
    ExecutorMatchesAwaits
    QualityIsExplained
PROPERTIES
    TranscriptIsKept
\* Coroutines end, and a client may stop asking.
CHECK_DEADLOCK FALSE
