SPECIFICATION FairSpec
CONSTANTS
  MaxPendingBytes = 3
  MaxChunkSize = 2
  TtyCap = 1
  Submissions = 3
  WriteSizes = {1, 4}
  TrySizes = {2}
  Failures = {"io", "close", "memory"}
INVARIANTS
  BytesAddUp
  InOrder
  DoneMeansWritten
  PendingKeepsOwner
  BackpressureRemembered
PROPERTY WritesSettle
CHECK_DEADLOCK FALSE
