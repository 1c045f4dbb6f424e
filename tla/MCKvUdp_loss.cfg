CONSTANTS
  k1 = k1
  k2 = k2
  k3 = k3
  v1 = v1
  v2 = v2
  long = long
  Keys = {k1, k2, k3}
  Values = {v1, v2, long}
  BadKeys = {}
  BadValues = {long}
  MaxItems = 2
  Callers = {a, b, c}
  Hasty = {a}
  Requests <- SomeRequests
  MaxRetries = 1
SPECIFICATION UdpSpec
SYMMETRY CallersAlike
CHECK_DEADLOCK FALSE
INVARIANTS GivesUpOnlyAfterLosses LastWriteStands ReadsAreRegular
PROPERTIES MapSpec
