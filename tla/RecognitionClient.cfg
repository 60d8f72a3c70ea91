SPECIFICATION Spec
CONSTANTS
    h1 = h1
    h2 = h2
    manager = manager
    Handlers <- Connections
    Manager <- manager
    Faults = {"service"}
    MaxFrame = 3
INVARIANTS
    AcksAreTrue
    TranscriptsBecomeSegments
PROPERTIES
    SendEnds
\* The call may be over, or everybody waiting for a stream that has failed.
CHECK_DEADLOCK FALSE
