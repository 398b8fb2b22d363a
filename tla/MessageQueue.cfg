SPECIFICATION FairSpec
CONSTANTS
    Languages = {"c", "cpp"}
    MaxFails = 1
    MaxLines = 4
    QueueMax = 2
    MaxSigints = 1
    MaxRuns = 2
INVARIANTS LinesArrive NothingLeftBehind
PROPERTIES ReaderComesToEnd
CHECK_DEADLOCK FALSE
