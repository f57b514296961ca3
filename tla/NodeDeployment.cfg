SPECIFICATION HostJobs
CONSTANTS
    MaxDeploys = 3
    MaxFaults = 3
    Entry = {"a", "b"}
    MaxEntries = 2
    Bytes = {1, 2}
    MaxIdentity = 2
INVARIANTS
    RegisteredServed
    AgentBehindRow
    RestoredIsReceived
    RunningKeepsArchive
PROPERTY
    TransactionsEnd
CHECK_DEADLOCK FALSE
