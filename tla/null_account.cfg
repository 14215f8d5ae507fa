CONSTANTS
    p1 = p1
    p2 = p2
    usdc = usdc
    Pools <- TwoPools
    Mints <- SharedMint
    Config = config
    ConfigSettled = TRUE
    ChannelSize = 1
SPECIFICATION Spec
INVARIANTS
    NullUnreachable
CHECK_DEADLOCK FALSE
