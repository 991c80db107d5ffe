SPECIFICATION Spec
CONSTANTS
  Peers = {1, 2}
  Keys = {k1, k2}
  NodeBytes = 1
  RetractBytes = 1
  DefinitionBytes = 1
  DeltaBytes = 3
  Large = {k2}
  MaxTime = 2
  MaxSeq = 5
  MaxFaults = 1
  Retention = "full"
  Schema = 6
CHECK_DEADLOCK FALSE
INVARIANTS CursorCovers
