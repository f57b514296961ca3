SPECIFICATION FairSpec
CONSTANTS
  Node = {1, 2}
  None = None
  MaxRequests = 2
  Movable = {2}
  MaxMoves = 1
INVARIANTS
  
  MoveUndone
PROPERTY
  AssignedServed
CHECK_DEADLOCK FALSE
