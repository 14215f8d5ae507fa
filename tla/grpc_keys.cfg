CONSTANTS
    Accounts = {k1, k2, k3}
    MaxVersion = 0
    MaxTasks = 3
SPECIFICATION FairSpec
INVARIANTS
    NoLeakedSubscription
    NoLostNotification
PROPERTIES
    ServedKeysSurvive
    AddedKeyServed
\* The main task idles until a key is added, and a task whose connection
\* failed never runs again: the system may stop.
CHECK_DEADLOCK FALSE
