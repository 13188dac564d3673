CONSTANTS
  s1 = s1
  q1 = q1
  q2 = q2
  Scans <- OneScan
  Kinds = {"ping", "web", "sca"}
  MaxBlocks = 3
  Shown = 1
  MaxDeliveries = 2
  Requests <- TwoRequests
  MaxMishaps = 1
SPECIFICATION Spec
INVARIANTS
  TaskInv
  PingStopHonoured
PROPERTIES
  RowLife
  ComesToRest
CHECK_DEADLOCK FALSE
