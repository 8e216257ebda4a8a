SPECIFICATION FairSpec
CONSTANTS
  MaxPendingBytes = 2
  MaxChunkSize = 2
  TtyCap = 2
  Submissions = 2
  WriteSizes = {2}
  TrySizes = {2}
  Failures = {}
PROPERTY WritesSettle
CHECK_DEADLOCK FALSE
