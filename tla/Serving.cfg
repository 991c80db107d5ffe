SPECIFICATION FairSpec
CONSTANTS
  Nodes = {n1, n2}
  Capacity = 1
  Retention = "frontier_only"
  MaxSeq = 3
  MaxLeases = 1
  MaxAdmin = 1
INVARIANTS
  TypeOK
  IndexAgrees
  FlushedIsComplete
  LagIsHonest
  LeaseIsRepeatable
PROPERTIES
  LeaseStaysDead
  CallsReturn
\* A poisoned handle waits for a reopening the bound MaxAdmin may not allow.
CHECK_DEADLOCK FALSE
