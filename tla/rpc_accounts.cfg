CONSTANTS
    Accounts = {k1, k2}
    MaxVersion = 1
    ChunkSize = 1
SPECIFICATION FairSpec
INVARIANTS
    TypeOK
    CycleRefreshes
PROPERTIES
    NeverSetBackFurther
    ImplementsCache
    ListedAccountsConverge
