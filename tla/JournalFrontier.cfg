SPECIFICATION Spec
CONSTANTS
  Keys = {k1, k2}
  MaxSeq = 3
  MaxClock = 3
  Faults = {"append_io", "apply", "segment_io", "remove_io", "seal_truncate_io", "header_io", "fold_truncate_io"}
  Retention = "frontier_only"
  Schema = 6
SYMMETRY KeySymmetry
INVARIANTS
  TypeOK
  NoLostWrite
  NoResurrection
  SnapshotNotAhead
  ClockIsFresh
  CheckpointIsComplete
PROPERTIES
  HorizonNeverRecedes
