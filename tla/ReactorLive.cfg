SPECIFICATION FairSpec
CONSTANTS
  Window = 1
  Buffer = 1
  PtyCap = 1
  MaxPrinted = 2
  MaxWrites = 1
  Mayhem <- Impatient
PROPERTIES
  StopEndsReactor
  BacklogDrains
CHECK_DEADLOCK FALSE
