CONSTANTS
    p1 = p1
    sol = sol
    usdc = usdc
    Pools <- OnePool
    Mints <- TwoMints
    Config = config
    ConfigSettled = FALSE
    ChannelSize = 1
    One = 10
    U64Max = 511
    Precise = 256
    Scale = 4096
    Ulps <- PowersOfTwo
    Trades <- SomeTrades
    Swaps <- SomeSwaps
    OverflowChecks = TRUE
SPECIFICATION QuoteSpec
INVARIANTS
    QuoteTypeOK
    MissingExplained
    ExactOutDelivers
    SlippageHonoured
    PanicsOutOfScale
\* The process exits when the bootstrap fails.
CHECK_DEADLOCK FALSE
