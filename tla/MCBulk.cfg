SPECIFICATION FairSpec
CONSTANTS
  Workers = {w1, w2}
  Jobs = 3
  TerminalMayFail = TRUE
  MaxPanics = 1
CHECK_DEADLOCK FALSE
INVARIANTS AllAccounted
PROPERTIES StopsEarly BatchReturns
