CONSTANTS
    self = self
    other = other
    Self = self
    Others = {other}
    MaxLogs = 2
    MaxDepth = 3
    MaxStack = 4
    Transactions <- SomeTransactions
    Upgraded = TRUE
SPECIFICATION ClientSpec
INVARIANTS
    ParserTypeOK
    StackFollowsCalls
    AbortsExplained
    ShowsOwnInstructions
    RowsAreOwnSwaps
    RowsSurvive
PROPERTY ImplementsFinder
\* The process ends.
CHECK_DEADLOCK FALSE
