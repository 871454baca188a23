SPECIFICATION Spec
CONSTANTS
    MaxLines = 4
    Files <- MCFiles
INVARIANTS TypeOK NestedAsWritten LinesReturnedOnce Closed
PROPERTY Ends
CHECK_DEADLOCK FALSE
