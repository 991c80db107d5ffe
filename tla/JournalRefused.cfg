SPECIFICATION Spec
CONSTANTS
  Keys = {k1}
  MaxSeq = 2
  MaxClock = 2
  Faults = {}
  Retention = "frontier_only"
  Schema = 6
INVARIANTS
  EveryCrashWindowOpens
