SPECIFICATION Spec
CONSTANTS
  Manifests = {m1}
  Chunks = 2
  MaxSeq = 10
  MaxCrashes = 1
  Budget = 1
INVARIANTS
  CrashResumable
CHECK_DEADLOCK FALSE
