SPECIFICATION Spec
CONSTANTS
  Faults = {"release"}
  MaxEvents = 1
  Window = 1
  Limit = 1
INVARIANT HandleStable
CHECK_DEADLOCK FALSE
