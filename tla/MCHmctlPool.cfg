CONSTANTS
    IntBits = 3
    LongBits = 5
    Unset = Unset
    Online <- LowNodes
    PreferredArgs <- LowPreferred
    MaxOptions = 2
    MaxNesting = 1
    NoArg = NoArg
    BadNodes = BadNodes
    NoWish = NoWish
    Threads = {t1}
    Addr = {a1, a2}
    MapFailed = MapFailed
    Null = Null
    Unmapped = Unmapped
    KernelModes <- Modes
    MaxPossible = 3
    Requests <- OneBlock
    MaxClass = 2
    SizeMax = 7
    PointerSize = 8
    MaxTries = 1
    Failing = {}
    AppErrnos = {"ok"}
SPECIFICATION EndToEndSpec
INVARIANTS
    TypeOK
    ConflictStops
    PolicyDelivered
    TargetNodes
CHECK_DEADLOCK FALSE
