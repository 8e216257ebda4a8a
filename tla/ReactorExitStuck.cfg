SPECIFICATION FairSpec
CONSTANTS
  Window = 1
  Buffer = 1
  PtyCap = 1
  MaxPrinted = 1
  MaxWrites = 0
  Mayhem <- Calm
PROPERTIES
  ExitEndsOutput
CHECK_DEADLOCK FALSE
