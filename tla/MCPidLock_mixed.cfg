CONSTANTS
  Starts = {a, b, c, d, e}
  Early = {a, b}
SPECIFICATION PidSpec
CHECK_DEADLOCK FALSE
SYMMETRY StartsAlike
INVARIANTS SingleDaemon PidFileTellsTruth
