SPECIFICATION Spec
CONSTANTS
  Window = 2
  Buffer = 2
  PtyCap = 2
  MaxPrinted = 3
  MaxWrites = 0
  Mayhem <- Attentive
INVARIANTS
  TypeOK
  CreditConserved
  EndMeansDrained
  HangupAfterExit
PROPERTY ImplementsStream
CHECK_DEADLOCK FALSE
