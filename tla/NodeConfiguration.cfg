SPECIFICATION FairSpec
CONSTANTS
    Job = {1, 2}
    Host = {"a", "b"}
    Port = {1, 2}
    Installed <- MCInstalled
    Wanted <- MCWanted
    None = None
    MaxFaults = 1
INVARIANTS WholeAtRest RowTellsNode
PROPERTIES ImplementsEdit EditsSettle
CHECK_DEADLOCK FALSE
