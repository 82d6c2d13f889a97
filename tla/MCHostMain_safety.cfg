SPECIFICATION Spec
CONSTANTS
  r1 = r1
  r2 = r2
  r3 = r3
  Records <- MCRecords
  Target = r1
  OfSid <- MCOfSid
  MaxRecords = 2
INVARIANTS
  TypeOK
  DeletesOnlyNamed
  ServesReadyDevice
  SuccessReleases
  
PROPERTY IdleNotLost
CHECK_DEADLOCK FALSE
