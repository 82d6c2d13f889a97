SPECIFICATION Spec
CONSTANTS
  MaxAttempts = 7
  MaxCount = 2
  Limit = 3
INVARIANTS
  TypeOK
  TerminalLeavesNothing
  InterruptDiscards
  AbortsConsecutive
PROPERTY Terminates
CHECK_DEADLOCK FALSE
