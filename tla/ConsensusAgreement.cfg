SPECIFICATION Spec
CONSTANTS
  Peers = {p1, p2, p3}
  Ids = {i1}
  Events = {e1, e2}
  MaxRecords = 3
  MaxProposals = 1
  MaxFaults = 0
  Retention = "frontier_only"
SYMMETRY Symmetry
INVARIANTS CommitNeedsMajority AppendedOnce
PROPERTIES ImplementsDecision
