SPECIFICATION Spec
CONSTANTS
  Faults = {"spawn", "memory", "resume", "reader", "writer", "waiter", "closer", "console", "read", "write", "wait", "kill", "release", "block", "isolate"}
  MaxEvents = 1
  Window = 1
  Limit = 1
INVARIANTS
  ClosedOnce
  HandlesGivenBack
  WorkersHoldSession
  ClosedMeansOver
  NothingIsStuck
PROPERTY ImplementsContract
CHECK_DEADLOCK FALSE
