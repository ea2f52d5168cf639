SPECIFICATION FairSpec
CONSTANTS
    INSTR_TRACE_SIZE = 3
    MaxInsn = 10
    InstructionLimits <- MCLimits
INVARIANTS
    TracePacked
    FetchedInOrder
    PrintsAll
    IInv
PROPERTY
    Termination
CHECK_DEADLOCK FALSE
