SPECIFICATION Spec
CONSTANTS
  MaxWait = 4
  Grace = 2
INVARIANTS
  TypeOK
  MatchesSample
  GivesUpLast
  LightLeftOnlyIfRefused
PROPERTY Returns
CHECK_DEADLOCK FALSE
