SPECIFICATION Spec
CONSTANTS
    INSTR_QUEUE_SIZE = 2
    RESERV_INT_SIZE = 2
    RESERV_FP_SIZE = 1
    FU_INT_SIZE = 2
    FU_FP_SIZE = 1
    FU_INT_LATENCY = 2
    FU_FP_LATENCY = 3
    sim_num_insn = 5
    MaxCycle = 40
    Reg <- MCReg
    Traces <- AllPrograms
INVARIANTS
    IInv
    QueueInOrder
    NoLostWakeup
    MapTableExact
    RAWResolved
    StagesInOrder
    DoneMeansComplete
PROPERTY ImplementsDataflow
CHECK_DEADLOCK FALSE
