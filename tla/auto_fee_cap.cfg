CONSTANTS
    MicroPerLamport = 100
    DefaultUnits = 8
    MaxAutoFee = 5
    MinCuPrice = 2
    MinPriorityFee = 2
    MultiplierFee = 3
    SafetyUnits = 6
    MaxUnits = 30
    U32Max = 15
    U64Max = 1000
    Rent = 1
    CreateCost = 2
    SwapUnits = {2, 5}
    InAmount = 2
    OutAmount = 3
    Slippage = 1
    Clients = {c1}
    Requests <- AutoFeeRequests
    Estimates <- TwoEstimates
    Ledgers <- SomeLedgers
    HasPriofee = TRUE
    Retries = 3
    Validity = 2
    MaxHeight = 0
SPECIFICATION Spec
INVARIANTS
    AutoFeesCapped
\* The process exits when startup fails.
CHECK_DEADLOCK FALSE
