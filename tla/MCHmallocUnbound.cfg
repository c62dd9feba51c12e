CONSTANTS
    IntBits = 2
    LongBits = 3
    Unset = Unset
    Threads = {t1}
    Addr = {a1, a2}
    MapFailed = MapFailed
    Null = Null
    Unmapped = Unmapped
    MemNodes = {0, 1}
    KernelModes <- OldKernel
    MaxPossible = 3
    Environments <- WeightedEnvironment
    Requests <- MallocOnly
    MaxClass = 2
    SizeMax = 7
    PointerSize = 8
    MaxTries = 1
    Failing = {}
    AppErrnos = {"ok"}
SPECIFICATION Spec
INVARIANT BlocksAreBound
CHECK_DEADLOCK FALSE
