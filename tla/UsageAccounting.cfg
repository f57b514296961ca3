SPECIFICATION FairSpec
CONSTANTS
  ledger = ledger
  legacy = legacy
  Node <- Nodes
  Durable <- Ledgers
  Quota = 2
  MaxMoved = 2
  MaxRenewals = 2
  MaxCrashes = 1
INVARIANTS
  ChargedOnce
PROPERTIES
  QuotaEnforced
CHECK_DEADLOCK FALSE
