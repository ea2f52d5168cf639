SPECIFICATION Spec
CONSTANTS
    Registers = {1, 2}
    Workloads <- MCWorkloads
INVARIANTS
    OperandsExact
    CreateVectorExact
    LoadsSeeStores
    OnPath
PROPERTIES
    Terminates
CHECK_DEADLOCK FALSE
