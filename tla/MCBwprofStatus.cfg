CONSTANTS
    NumSockets = 1
    CommandLines <- RecordCommand
    Continued <- LinesOfWords
    MayFail = {}
    Precision = 4
    Ahead = 7
    MaxClock = 5
    MaxEvents = 1
    Active <- OneCounter
SPECIFICATION Spec
INVARIANT ExitReported
CHECK_DEADLOCK FALSE
