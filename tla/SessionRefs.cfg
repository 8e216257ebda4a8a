SPECIFICATION Spec
CONSTANT Faults <- Troubled
INVARIANTS
  RefsAccounted
CHECK_DEADLOCK FALSE
