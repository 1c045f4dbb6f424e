CONSTANTS
  k1 = k1
  v1 = v1
  Keys = {k1}
  Values = {v1}
  BadKeys = {}
  BadValues = {}
  MaxItems = 1
  Clients = {a, b}
  Requests <- AllKinds
  MaxRequests = 2
  Faults = {"idle", "half", "waiting"}
  FdLimits = {1, 2}
SPECIFICATION TcpSpec
CHECK_DEADLOCK FALSE
INVARIANTS NoLostWakeup OneAnswerPerRequest EventsMatchConnections
PROPERTIES RequestAnswered ConnectionReclaimed
