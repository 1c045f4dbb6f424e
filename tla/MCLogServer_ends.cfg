CONSTANTS
  f1 = f1 f2 = f2 f3 = f3 a = a b = b
  Servers <- BothServers
  Opens <- OpenLists
  Clients = {a, b}
  FifoOf <- Shared
  Critical = {b}
  Messages = 2
  MaxAdds = 1
  AlertCap = 1
  MayStop = TRUE
SPECIFICATION Spec
CHECK_DEADLOCK FALSE
INVARIANTS NothingForgotten LogInOrder SumNamesItsFifo
PROPERTIES NoMessageStays ServerStops
