SPECIFICATION FairSpec
CONSTANTS
  MaxRelease = 3
  SchemaOf <- Schemas
  Backend <- Both
  MaxSettings = 1
  MaxRestores = 1
  MaxRow = 1
  MaxFaults = 2
INVARIANTS
  WholeAtRest
PROPERTIES
  EndsWhole
  RowsKept
  RecoveryEnds
CHECK_DEADLOCK FALSE
