CONSTANTS
  MAX_WORKERS = 3
  Height = 6
  Faults = {"die", "hang"}
SPECIFICATION StaticSpec
CHECK_DEADLOCK FALSE
INVARIANTS SharesAreWhole
PROPERTIES MasterEnds
