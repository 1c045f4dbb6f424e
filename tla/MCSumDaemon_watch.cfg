CONSTANTS
  Versions = {"lab1_source_code", "lab1_task2", "lab1_task1"}
  Timeout = 5
  PipeCap = 2
  Rounds = 10
  MaxNum = 8
  Faults = {"pause", "kill", "orphan"}
SPECIFICATION SumSpec
CHECK_DEADLOCK FALSE
INVARIANTS SumsAreRight
PROPERTIES DaemonStops NoOrphan
