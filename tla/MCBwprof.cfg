CONSTANTS
    NumSockets = 2
    CommandLines <- AllCommandLines
    Continued <- LinesOfWords
    MayFail = {"prepare", "pcm", "csv", "fork", "info"}
    Precision = 4
    Ahead = 7
    MaxClock = 4
    MaxEvents = 2
    Active <- OneEach
SPECIFICATION FairSpec
INVARIANTS
    TypeOK
    AccumulatesAllEvents
    RowsCoverInterval
    FileAddsUp
    ChildAccounted
    CommandKeepsItsWords
    ColumnsMatchHeader
    ReportKeepsProportions
    ReportNeverOverstates
    DumpTimesApart
    InfoReadsBack
PROPERTY EndsWithCommand
CHECK_DEADLOCK FALSE
