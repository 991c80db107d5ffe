SPECIFICATION FairSpec
CONSTANTS
  Manifests = {m1, m2}
  Chunks = 2
  MaxSeq = 14
  MaxCrashes = 3
  Budget = 2
INVARIANTS
  TypeOK
  ReadyIsProven
  SourceIsApproved
  ReadyOpens
PROPERTIES
  ReadyIsFinal
  MigrationCompletes
\* The bound on sequence numbers ends repeated calls that are refused for ever.
CHECK_DEADLOCK FALSE
