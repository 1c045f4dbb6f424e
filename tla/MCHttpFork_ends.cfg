CONSTANTS
  Browsers = {a, b, c}
  MayHangUp = TRUE
  MayStall = TRUE
  ForkMayFail = TRUE
SPECIFICATION ForkSpec
CHECK_DEADLOCK FALSE
INVARIANTS NothingInherited
PROPERTIES EveryPageEnds
