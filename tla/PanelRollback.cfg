SPECIFICATION Spec
CONSTANTS
  MaxRelease = 2
  SchemaOf <- Schemas
  Backend <- Postgres
  MaxSettings = 1
  MaxRestores = 1
  MaxRow = 1
  MaxFaults = 0
CHECK_DEADLOCK FALSE
PROPERTIES
  RollbackKeepsData
