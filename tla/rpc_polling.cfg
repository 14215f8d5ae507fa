CONSTANTS
    Accounts = {k1}
    MaxVersion = 1
    ChunkSize = 1
SPECIFICATION FairSpec
PROPERTIES
    KeepsPolling
