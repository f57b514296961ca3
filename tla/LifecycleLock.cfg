SPECIFICATION Leases
CONSTANTS
  Request = {1, 2, 3}
  TTL = 4
  MaxBody = 6
  MaxTime = 12
  Node = {1, 2}
  User = {"u"}
  Requests = {1, 2}
  MaxAsked = 2
INVARIANT
  OneMutation
PROPERTY
  PolicyReigns
CHECK_DEADLOCK FALSE
