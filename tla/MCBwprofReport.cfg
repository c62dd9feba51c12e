CONSTANTS
    NumSockets = 1
    CommandLines <- RecordAlone
    Continued <- LinesOfWords
    MayFail = {}
    Precision = 4
    Ahead = 7
    MaxClock = 5
    MaxEvents = 2
    Active <- OneCounter
SPECIFICATION Spec
INVARIANT ReportShowsSizes
CHECK_DEADLOCK FALSE
