SPECIFICATION Spec
CONSTANTS
    MaxVersion = 2
    MaxLedger = 3
    MaxFaults = 1
    MaxOutages = 2
    MaxOrders = 2
INVARIANTS
    WholeWhenResolved
PROPERTIES
    CountersKept
    RecoveryEnds
CHECK_DEADLOCK FALSE
