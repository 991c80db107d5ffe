SPECIFICATION FairSpec
CONSTANTS
  Peers = {1, 2}
  Keys = {k1, k2}
  NodeBytes = 2
  RetractBytes = 1
  DefinitionBytes = 1
  DeltaBytes = 3
  Large = {k2}
  MaxTime = 2
  MaxSeq = 12
  MaxFaults = 1
  Retention = "full"
  Schema = 5
CHECK_DEADLOCK FALSE
PROPERTIES Convergence
