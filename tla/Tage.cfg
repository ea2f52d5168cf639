\* Three tables with histories of 2, 3 and 5 outcomes, 4 entries each: every
\* outcome of 14 branches of a loop with three branches.
SPECIFICATION LoopSpec
CONSTANTS
    HIS_BITS <- Lengths
    TAG_WIDTH = 3
    NUM_TAGE_ENTRIES = 4
    T0_PHRT_ENTRIES = 1
    T0_PHT_TABLES = 2
    T0_PHT_ENTRIES = 2
    USE_MAX = 3
    USE_INIT = 2
    PCs <- Addresses
    MaxBranches = 14
INVARIANTS
    FoldExact
    DigitsKept
    MispredictionMoves
PROPERTIES
    UsefulProtected
CHECK_DEADLOCK FALSE
