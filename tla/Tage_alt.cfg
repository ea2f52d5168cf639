\* predictor.cc:121, "Use altPred as the prediction when the predictor component
\* has a weak prediction or is not useful": of two tables that match, altPred
\* repeats the longer one.  Every trace of up to 7 branches.
SPECIFICATION Spec
CONSTANTS
    HIS_BITS <- Lengths
    TAG_WIDTH = 3
    NUM_TAGE_ENTRIES = 4
    T0_PHRT_ENTRIES = 1
    T0_PHT_TABLES = 2
    T0_PHT_ENTRIES = 2
    USE_MAX = 3
    USE_INIT = 2
    PCs = {5, 22}
    MaxBranches = 7
INVARIANTS
    AltIsNextShorter
CHECK_DEADLOCK FALSE
