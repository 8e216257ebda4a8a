SPECIFICATION FairSpec
CONSTANTS
  Faults = {"setup", "child", "launcher", "supervisor", "program", "host", "statusRead", "configure"}
  MaxPath = 3
INVARIANTS
  NothingLeaks
  VerdictTrue
  ExitReportTrue
PROPERTIES
  SpawnReturns
  NothingRemains
  ExitArrives
CHECK_DEADLOCK FALSE
