SPECIFICATION Spec
CONSTANT Faults <- Orderly
INVARIANTS
  TypeOK
  WorkersHoldSession
  NoStraySignal
  ClosedMeansOver
  GoneIsFreed
  SpawnAnswered
  CloseReturns
PROPERTY ImplementsContract
CHECK_DEADLOCK FALSE
