SPECIFICATION Services
CONSTANTS
  Setting = {1, 2}
  MaxSecret = 2
  MaxName = 2
  MaxFaults = 1
  Secret = {1, 2}
  Key = {1, 2}
  User = {"u", "v"}
  Quota = {1, 2}
  Slots = {1}
  MaxTotal = 2
  MaxUsed = 1
  MaxGrants = 1
  MaxBackup = 3
  Checkpoints = 1
  MaxHurt = 1
INVARIANTS
  EnabledIsAccepted
  ClosedWhenTold
  ShownWorks
  AllocationCovered
  StuckBehindReset
  RecoveryFinds
PROPERTIES
  RepairEnds
CHECK_DEADLOCK FALSE
