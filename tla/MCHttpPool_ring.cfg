CONSTANTS
  Clients = {a, b, c}
  Workers = {w, x}
  QueueSize = 3
  MaxFds = 3
  Faults = {"hangup", "stall"}
SPECIFICATION Spec
CHECK_DEADLOCK FALSE
INVARIANTS OnePlacePerConnection SomeoneIsAwake
PROPERTIES QueueSpec EveryClientAnswered
