\* Accesses, prefetches and flushes of the workloads of MCPrefetchers.
SPECIFICATION PFSpec
CONSTANTS
    Configs <- MCConfigs
    Workloads <- MCWorkloads
    Addrs = {}
    NULL = NULL
    AddrSpace = 4096
    OPEN_ROWS = 1
INVARIANTS
    CountsAddUp
    DemandBlockStays
    LocksOn
    MissesOnlyInWarmUp
PROPERTIES
    PrefetchesBounded
CHECK_DEADLOCK FALSE
