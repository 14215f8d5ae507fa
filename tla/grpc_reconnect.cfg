CONSTANTS
    Accounts = {k1}
    MaxVersion = 1
    MaxTasks = 1
SPECIFICATION FairSpec
PROPERTIES
    Reconnects
\* The main task idles until a key is added, and a task whose connection
\* failed never runs again: the system may stop.
CHECK_DEADLOCK FALSE
