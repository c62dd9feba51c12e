CONSTANTS
    IntBits = 2
    LongBits = 3
    Unset = Unset
    Threads = {t1, t2}
    Addr = {a1, a2}
    MapFailed = MapFailed
    Null = Null
    Unmapped = Unmapped
    MemNodes = {0, 1}
    KernelModes <- OldKernel
    MaxPossible = 3
    Environments <- AllEnvironments
    Requests <- AllRequests
    MaxClass = 2
    SizeMax = 7
    PointerSize = 8
    MaxTries = 1
    Failing = {"mmap", "mbind"}
    AppErrnos = {"ok", "ENOMEM"}
SPECIFICATION Spec
SYMMETRY Symmetric
INVARIANTS
    TypeOK
    PoolIsBound
    MappingsAccounted
PROPERTY ImplementsPool
CHECK_DEADLOCK FALSE
