SPECIFICATION FairSpec
CONSTANTS
  Node <- TwoNodes
  Deletable <- NoNode
  CanCrash = FALSE
PROPERTIES
  CutoverIsClean
  EveryJobEnds
CHECK_DEADLOCK FALSE
