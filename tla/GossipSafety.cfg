SPECIFICATION Spec
CONSTANTS
  Peers = {1, 2}
  Keys = {k1, k2}
  NodeBytes = 2
  RetractBytes = 2
  DefinitionBytes = 1
  DeltaBytes = 3
  Large = {}
  MaxTime = 2
  MaxSeq = 2
  MaxFaults = 1
  Retention = "frontier_only"
  Schema = 5
CHECK_DEADLOCK FALSE
SYMMETRY KeySymmetry
INVARIANTS TypeOK CursorCovers
PROPERTIES NoRegression CursorNeverRecedes
