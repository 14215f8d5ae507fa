CONSTANTS
    Accounts = {k1, k2}
    MaxVersion = 2
    MaxTasks = 2
SPECIFICATION FairSpec
INVARIANTS
    TypeOK
    StoreFollowsWriter
PROPERTIES
    ImplementsCache
    StreamedAccountConverges
\* The main task idles until a key is added, and a task whose connection
\* failed never runs again: the system may stop.
CHECK_DEADLOCK FALSE
