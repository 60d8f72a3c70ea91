SPECIFICATION Spec
CONSTANTS
    r1 = r1
    r2 = r2
    Inputs <- Entered
    FileWords <- InFile
    Texts <- Transcripts
    Fold <- Folding
    MaxLength = 4
    Requests <- Serving
    PageSize = 1
    MaxVersion = 3
    MaxRestarts = 1
INVARIANTS
    PublicationInv
    ScansFindTheWords
    ListedOnce
SYMMETRY Symmetry
CHECK_DEADLOCK FALSE
