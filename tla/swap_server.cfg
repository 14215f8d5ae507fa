CONSTANTS
    MicroPerLamport = 100
    DefaultUnits = 8
    MaxAutoFee = 5
    MinCuPrice = 2
    MinPriorityFee = 2
    MultiplierFee = 3
    SafetyUnits = 6
    MaxUnits = 30
    U32Max = 15
    U64Max = 1000
    Rent = 1
    CreateCost = 2
    SwapUnits = {3}
    InAmount = 2
    OutAmount = 3
    Slippage = 1
    Clients = {c1, c2}
    Requests <- FewRequests
    Estimates <- OneEstimate
    Ledgers <- OneLedger
    HasPriofee = FALSE
    Retries = 3
    Validity = 2
    MaxHeight = 1
SPECIFICATION FairSpec
INVARIANTS
    HashOfArrival
PROPERTIES
    RequestsAnswered
    HashGetsWritten
\* The process exits when startup fails.
CHECK_DEADLOCK FALSE
