SPECIFICATION Spec
CONSTANTS
  Threads = {th1, th2}
  MaxPackets = 2
  MaxErrors = 1
  MaxTries = 2
INVARIANTS
  TypeOK
  PacketsOnceInOrder
  ExitCodeOfEnroll
PROPERTY PacketsDelivered
CHECK_DEADLOCK FALSE
