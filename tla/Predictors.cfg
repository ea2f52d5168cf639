\* The history length of predictor.cc (6 bits) and small tables.
SPECIFICATION MCSpec
CONSTANTS
    BITSAT_SIZE = 32
    PHT_TABLES = 8
    BHT_SIZE = 4
    PATTERNS = 64
    HistBits = 6
    PCs = {3, 7, 17, 35}
    AliasingPCs = {3, 7, 35}
    AnyRecords = 6
    TestPC = 3
    LoopPC = 17
    Iterations = 100
    MaxInst = 250
    Periods = {2, 3, 4, 5, 6, 7, 8, 9, 12}
INVARIANTS
    PatternMispredictions
    IInv
PROPERTY
    LearnsShortPatterns
CHECK_DEADLOCK FALSE
