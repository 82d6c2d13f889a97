SPECIFICATION Spec
CONSTANTS
  f1 = f1
  f2 = f2
  Fingers <- MCFingers
  MaxTries = 3
  MaxRuns = 1
INVARIANT CtrlCDiscards
CHECK_DEADLOCK FALSE
