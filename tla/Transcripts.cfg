SPECIFICATION AnalysisSpec
CONSTANTS
    MaxChars = 5
    MaxGap = 1
    MaxSpan = 6
    MinSpan = 2
    Duration = 10
    MaxWindow = 3
    MaxPrompt = 12
    Frame = 2
    RiskCounts = {0, 13}
    Said <- Recordings
INVARIANTS
    WordsAreKept
    LinesAreWellCut
    InterruptionsAreOverlaps
    EveryLineIsRead
\* An analysis ends.
CHECK_DEADLOCK FALSE
