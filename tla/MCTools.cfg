CONSTANTS
    NumNodes = 3
    possible <- CPUs
    Topologies <- ThreeTopologies
    Matrices <- SomeMatrices
    Unit = 64
    MaxRuns = 2
    Nodes = {"dram", "cxl", "far", "cpuless"}
    Regions <- FourNodes
    Arguments <- SomeArguments
    NoLimit = NoLimit
    MaxChunks = 20
SPECIFICATION Spec
INVARIANTS
    BwactlTypeOK
    UnpacksWholeArchive
    PackageOfOneRow
    WeightsKeepProportion
    MigpolTypeOK
    RegionsCovered
    RegionsBounded
    PolicyAsAsked
PROPERTIES
    BwactlEnds
    MigpolEnds
CHECK_DEADLOCK FALSE
