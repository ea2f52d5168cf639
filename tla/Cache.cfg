\* Every sequence of operations on three small caches, of any length, and of
\* five operations on one with hash chains: four blocks, block 0 among them.
SPECIFICATION MCSpec
CONSTANTS
    Configs <- SmallConfigs
    Addrs = {0, 12, 16, 32}
    NULL = NULL
    MaxOps = 5
INVARIANTS
    IInv
    WayListWhole
    ChainsExact
    LastHitExact
    NoLostWrite
PROPERTIES
    ImplementsAbstractCache
CHECK_DEADLOCK FALSE
