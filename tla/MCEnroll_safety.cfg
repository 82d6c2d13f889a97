SPECIFICATION TouchSpec
CONSTANTS
  f1 = f1
  f2 = f2
  Fingers <- MCFingers
  MaxTries = 3
  MaxRuns = 3
INVARIANTS
  TypeOK
  OutcomeMatchesDatabase
  DuplicateOnlyIfCheckFailed
  PromptInterrupt
  HandlerRestored
PROPERTIES
  FollowsProtocol
  Terminates
CHECK_DEADLOCK FALSE
