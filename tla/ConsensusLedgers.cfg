SPECIFICATION Spec
CONSTANTS
  Peers = {p1, p2}
  Ids = {i1, i2}
  Events = {e1}
  MaxRecords = 3
  MaxProposals = 2
  MaxFaults = 1
  Retention = "frontier_only"
SYMMETRY Symmetry
INVARIANTS TypeOK NoEquivocation LedgersLoad ReceiptIsTrue
PROPERTIES NeverAppendsHeld
