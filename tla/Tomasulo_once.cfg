SPECIFICATION FairSpec
CONSTANTS
    INSTR_QUEUE_SIZE = 2
    RESERV_INT_SIZE = 2
    RESERV_FP_SIZE = 1
    FU_INT_SIZE = 2
    FU_FP_SIZE = 1
    FU_INT_LATENCY = 2
    FU_FP_LATENCY = 3
    sim_num_insn = 4
    MaxCycle = 40
    Reg <- MCReg
    Traces <- AllPrograms
PROPERTY EntersStageOnce
CHECK_DEADLOCK FALSE
