\* An administrator changes a word that is there.
SPECIFICATION Spec
CONSTANTS
    r1 = r1
    r2 = r2
    Inputs <- Entered
    FileWords <- InFile
    Texts <- Transcripts
    Fold <- Folding
    MaxLength = 4
    Requests <- Serving
    PageSize = 1
    MaxVersion = 2
    MaxRestarts = 0
INVARIANTS
    UpdatesSucceed
CHECK_DEADLOCK FALSE
