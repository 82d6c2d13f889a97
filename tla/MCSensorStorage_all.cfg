SPECIFICATION Spec
CONSTANTS
  own1 = own1
  own2 = own2
  foreign1 = foreign1
  foreign2 = foreign2
  orphan1 = orphan1
  Own <- MCOwn
  Guids <- MCGuids
  Orphans <- MCOrphans
INVARIANTS
  TypeOK
  ReportTruthful
PROPERTIES
  StopsInTime
  Terminates
CHECK_DEADLOCK FALSE
