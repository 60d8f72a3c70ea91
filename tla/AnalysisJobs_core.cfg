SPECIFICATION Spec
CONSTANTS
    Jobs = {j1}
    SourceTypes = {"url", "realtime"}
    Retries = {r1}
    RetryModules = {"emotion"}
    Faults <- ServiceFaults
INVARIANTS
    CompletedJobIsAnalyzed
    AnalysisAfterTranscript
    RunningModuleHasRun
PROPERTIES
    TerminalIsFinal
    RecordSpec
    WorkEnds
\* Coroutines end, and a client may stop asking.
CHECK_DEADLOCK FALSE
