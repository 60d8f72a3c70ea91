SPECIFICATION Spec
CONSTANTS
    Faults = {"network"}
    MaxActions = 3
INVARIANTS
    PollsInv
    SettledPageIsCurrent
PROPERTIES
    PageLearnsTheEnd
\* Nothing happens once the user has done with it.
CHECK_DEADLOCK FALSE
