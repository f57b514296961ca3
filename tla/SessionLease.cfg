SPECIFICATION FairLeaseSpec
CONSTANTS
  n1 = n1
  a = a
  b = b
  Home <- OneNode
  Conn <- Conns
  HomeOf <- Homes
  Limits <- OneOrTwo
  TTL = 2
  Grace = 2
  MaxLate = 1
  MaxLag = 1
PROPERTIES
  TrackedWithinLimit
  LiveLeaseKept
  GhostsEnd
