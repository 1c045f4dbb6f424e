CONSTANTS
  Clients = {a, b, c}
  MaxFds = 2
  MayHangUp = TRUE
SPECIFICATION EpollSpec
CHECK_DEADLOCK FALSE
INVARIANTS NothingForgotten
PROPERTIES EveryoneAnswered
