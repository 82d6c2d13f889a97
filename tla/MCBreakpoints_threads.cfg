SPECIFICATION Spec
CONSTANTS
  Threads = {t1, t2}
  Table <- MCTable
  Near = 5
  None = None
INVARIANTS
  TypeOK
  RearmedOneAtATime
CHECK_DEADLOCK FALSE
