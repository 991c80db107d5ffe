SPECIFICATION FairSpec
CONSTANTS
  Keys = {k1}
  MaxSeq = 3
  MaxClock = 3
  Faults = {"append_io", "torn_header", "header_io", "snapshot_io"}
  Retention = "full"
  Schema = 5
INVARIANTS
  NoLostWrite
  FrontierCovers
PROPERTIES
  CallsReturn
