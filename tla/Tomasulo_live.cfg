\* The sizes and latencies of tomasulo.c.
SPECIFICATION FairSpec
CONSTANTS
    INSTR_QUEUE_SIZE = 10
    RESERV_INT_SIZE = 4
    RESERV_FP_SIZE = 2
    FU_INT_SIZE = 2
    FU_FP_SIZE = 1
    FU_INT_LATENCY = 4
    FU_FP_LATENCY = 9
    sim_num_insn = 17
    MaxCycle = 250
    Reg <- MCReg
    Traces <- Loops
PROPERTY Termination
CHECK_DEADLOCK FALSE
