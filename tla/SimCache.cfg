\* Eight hierarchies, every program of up to four instructions.
SPECIFICATION Spec
CONSTANTS
    Hierarchies <- TwoLevels
    Configs <- Geometries
    Randoms <- SomeRandoms
    Addrs = {64, 72, 112}
    PCs = {128, 152}
    AddrSpace = 512
    NULL = NULL
    MaxInsns = 4
INVARIANTS
    WritesKept
    TrafficAddsUp
PROPERTIES
    FlushReachesMemory
CHECK_DEADLOCK FALSE
