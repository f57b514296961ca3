SPECIFICATION Spec
CONSTANTS
  Node <- TwoNodes
  Deletable <- LastNode
  CanCrash = TRUE
INVARIANTS
  LiveJobHoldsLock
  CompletedMeansRevoked
PROPERTIES
  OldNeverReturns
  ImplementsContract
CHECK_DEADLOCK FALSE
