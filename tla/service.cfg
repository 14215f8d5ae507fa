CONSTANTS
    p1 = p1
    p2 = p2
    usdc = usdc
    Pools <- TwoPools
    Mints <- SharedMint
    Config = config
    ConfigSettled = TRUE
    ChannelSize = 1
SPECIFICATION FairSpec
INVARIANTS
    TypeOK
    StoredPoolsComplete
    ProcessedPoolsStored
    RewritesSharedOnly
PROPERTIES
    PoolsGetStored
\* The process exits when the bootstrap fails.
CHECK_DEADLOCK FALSE
